---- MODULE Spec2Model ----
(***************************************************************************)
(* Model of the prompt-capture pipeline of copilot-prompt-logger:          *)
(* CopilotLogger (src/src/logger.ts, second class, lines 195-649),         *)
(* ConfigManager (src/src/copilot-api.ts, lines 177-269) and the host      *)
(* entry points of the extension (src/unnamed/part_003).                   *)
(*                                                                         *)
(* Texts.  A JavaScript string is modelled as a sequence of lexemes.  A    *)
(* lexeme is either one character ("a", " ", "-", "#", ...) or one of the  *)
(* literals the code searches for as a unit ("Session Started",            *)
(* "Prompt at", "Here is the implementation", ...).  Width gives the       *)
(* number of characters a lexeme stands for, so that String.length is the  *)
(* sum of the widths.  toLowerCase, trim, includes, startsWith and the     *)
(* regular expressions of cleanupPrompt are computed on these sequences.   *)
(***************************************************************************)
EXTENDS Naturals, Sequences, FiniteSets, TLC

(***************************************************************************)
(* Lexemes                                                                 *)
(***************************************************************************)
NL == "\n"
SP == " "
\* the three-backtick code fence
FENCE == "<fence>"
TS == "2025-01-01 10:00:00"
PROSE == "<101 letters x>"
FILL == "<96 letters y>"
TRUNCATED == "... [truncated]"
\* new Date().toLocaleDateString()
LOCALE_DATE == "1/1/2025"

\* String.prototype.toLowerCase on one lexeme
LowerLexeme(c) ==
  CASE c = "A" -> "a"
    [] c = "F" -> "f"
    [] c = "G" -> "g"
    [] c = "Session Started" -> "session started"
    [] c = "Session Ended" -> "session ended"
    [] c = "Prompt at" -> "prompt at"
    [] c = "Context" -> "context"
    [] c = "Input" -> "input"
    [] c = "Source" -> "source"
    [] c = "File" -> "file"
    [] c = "User Input" -> "user input"
    [] c = "GitHub Copilot Prompts Log" -> "github copilot prompts log"
    [] c = "Here is the implementation" -> "here is the implementation"
    [] c = "Updated content goes here" -> "updated content goes here"
    [] c = "The content has been further updated" -> "the content has been further updated"
    [] c = "Additional content has been added" -> "additional content has been added"
    [] c = "This ensures that all necessary details" -> "this ensures that all necessary details"
    [] c = "Key takeaways and actionable insights" -> "key takeaways and actionable insights"
    [] c = "Further enhancements have been made" -> "further enhancements have been made"
    [] c = "The" -> "the"
    [] c = "This" -> "this"
    [] c = "Updates" -> "updates"
    [] OTHER -> c

\* the number of characters a lexeme stands for
Width(c) ==
  CASE c \in {"Session Started", "session started"} -> 15
    [] c \in {"Session Ended", "session ended"} -> 13
    [] c \in {"Prompt at", "prompt at"} -> 9
    [] c \in {"Context", "context", "Updates", "updates"} -> 7
    [] c \in {"Input", "input"} -> 5
    [] c \in {"Source", "source", "system", "method"} -> 6
    [] c \in {"File", "file", "This", "this"} -> 4
    [] c \in {"The", "the"} -> 3
    [] c = FENCE -> 3
    [] c \in {"User Input", "user input", "implements"} -> 10
    [] c \in {"function"} -> 8
    [] c \in {"class"} -> 5
    [] c \in {"GitHub Copilot Prompts Log", "github copilot prompts log",
              "Here is the implementation", "here is the implementation"} -> 26
    [] c \in {"Updated content goes here", "updated content goes here"} -> 25
    [] c \in {"The content has been further updated",
              "the content has been further updated"} -> 36
    [] c \in {"Additional content has been added",
              "additional content has been added"} -> 33
    [] c \in {"This ensures that all necessary details",
              "this ensures that all necessary details"} -> 39
    [] c \in {"Key takeaways and actionable insights",
              "key takeaways and actionable insights"} -> 37
    [] c \in {"Further enhancements have been made",
              "further enhancements have been made"} -> 35
    [] c = TS -> 19
    [] c = PROSE -> 101
    [] c = FILL -> 96
    [] c = TRUNCATED -> 15
    [] c \in {"User", "a.ts"} -> 4
    [] c \in {LOCALE_DATE, "src/a.ts"} -> 8
    [] c = "Chat Message at" -> 15
    [] c = "file contains logs of prompts sent to GitHub Copilot" -> 52
    [] OTHER -> 1

\* \s of a regular expression and the characters String.prototype.trim strips
IsSpace(c) == c \in {SP, NL}

\* \w of a regular expression: the one-character lexemes that are letters
IsWordChar(c) ==
  c \in {"a", "b", "c", "d", "e", "f", "g", "h", "i", "j", "k", "l", "m",
         "n", "o", "p", "q", "r", "s", "t", "u", "v", "w", "x", "y", "z",
         "A", "F", "G"}

(***************************************************************************)
(* String primitives                                                       *)
(***************************************************************************)
RECURSIVE TextLength(_)
TextLength(s) == IF s = <<>> THEN 0 ELSE Width(Head(s)) + TextLength(Tail(s))

ToLowerCase(s) == [i \in 1..Len(s) |-> LowerLexeme(s[i])]

RECURSIVE TrimStart(_)
TrimStart(s) ==
  IF s # <<>> /\ IsSpace(Head(s)) THEN TrimStart(Tail(s)) ELSE s

RECURSIVE TrimEnd(_)
TrimEnd(s) ==
  IF s # <<>> /\ IsSpace(s[Len(s)]) THEN TrimEnd(SubSeq(s, 1, Len(s) - 1)) ELSE s

Trim(s) == TrimEnd(TrimStart(s))

\* s.substring(i - 1) for a 1-based i
From(s, i) == SubSeq(s, i, Len(s))

\* whether the lexemes of pat occur in s starting at position i
MatchAt(s, pat, i) ==
  /\ i >= 1
  /\ i + Len(pat) - 1 <= Len(s)
  /\ SubSeq(s, i, i + Len(pat) - 1) = pat

Includes(s, pat) == \E i \in 1..Len(s) : MatchAt(s, pat, i)

StartsWith(s, pat) == MatchAt(s, pat, 1)

\* the position of the first line terminator at or after i, Len(s) + 1 if none
RECURSIVE EndOfLine(_, _)
EndOfLine(s, i) ==
  IF i > Len(s) \/ s[i] = NL THEN i ELSE EndOfLine(s, i + 1)

\* the position of the first lexeme c at or after i, 0 if none
RECURSIVE IndexOfLexeme(_, _, _)
IndexOfLexeme(s, c, i) ==
  IF i > Len(s) THEN 0
  ELSE IF s[i] = c THEN i
  ELSE IndexOfLexeme(s, c, i + 1)

\* the position after the run of word characters that starts at i
RECURSIVE WordRunEnd(_, _)
WordRunEnd(s, i) ==
  IF i <= Len(s) /\ IsWordChar(s[i]) THEN WordRunEnd(s, i + 1) ELSE i

\* the position after the run of dashes that starts at i
RECURSIVE DashRunEnd(_, _)
DashRunEnd(s, i) ==
  IF i <= Len(s) /\ s[i] = "-" THEN DashRunEnd(s, i + 1) ELSE i

(***************************************************************************)
(* cleanupPrompt (logger.ts 614-648)                                       *)
(***************************************************************************)
\* cleaned.replace(/```[\w]*\n([\s\S]*?)```/g, '$1'), scanning from position i:
\* an opening fence, word characters, a line break, the shortest content up
\* to the next fence; the content is kept, the fences and the word dropped.
RECURSIVE StripFencesFrom(_, _)
StripFencesFrom(s, i) ==
  IF i > Len(s) THEN <<>>
  ELSE LET j == WordRunEnd(s, i + 1)
           k == IF s[i] = FENCE /\ j <= Len(s) /\ s[j] = NL
                THEN IndexOfLexeme(s, FENCE, j + 1)
                ELSE 0
       IN  IF k > 0
           THEN SubSeq(s, j + 1, k - 1) \o StripFencesFrom(s, k + 1)
           ELSE <<s[i]>> \o StripFencesFrom(s, i + 1)

StripFences(s) == StripFencesFrom(s, 1)

\* The regular expressions of patternsToRemove, in the order of the array.
\* kind "eol": the literal `lit`, then (when `then` is not empty) anything on
\* the same line followed by `then`, then the rest of the line (.*$ with the
\* m flag); kind "dashes": three or more dashes; kind "lexeme": the literal.
patternsToRemove ==
  << [kind |-> "eol", lit |-> <<"#", SP, "GitHub Copilot Prompts Log">>, then |-> <<>>],
     [kind |-> "eol", lit |-> <<"#", "#", SP, "Session Started", ":">>, then |-> <<>>],
     [kind |-> "eol", lit |-> <<"#", "#", SP, "Session Ended", ":">>, then |-> <<>>],
     [kind |-> "eol", lit |-> <<"#", "#", "#", SP>>, then |-> <<"Prompt at">>],
     [kind |-> "eol", lit |-> <<"#", "#", "#", "#", SP, "Context">>, then |-> <<>>],
     [kind |-> "eol", lit |-> <<"#", "#", "#", "#", SP, "Input">>, then |-> <<>>],
     [kind |-> "eol", lit |-> <<"Source", ":">>, then |-> <<>>],
     [kind |-> "eol", lit |-> <<"File", ":">>, then |-> <<>>],
     [kind |-> "dashes", lit |-> <<"-", "-", "-">>, then |-> <<>>],
     [kind |-> "lexeme", lit |-> <<TS>>, then |-> <<>>] >>

\* the position after the match of pattern p that starts at i, 0 if p does
\* not match at i
MatchEnd(s, p, i) ==
  IF ~MatchAt(s, p.lit, i) THEN 0
  ELSE LET after == i + Len(p.lit)
           eol == EndOfLine(s, after)
       IN  CASE p.kind = "eol" ->
                  IF \/ p.then = <<>>
                     \/ \E j \in after..(eol - 1) :
                          MatchAt(s, p.then, j) /\ j + Len(p.then) <= eol
                  THEN eol
                  ELSE 0
             [] p.kind = "dashes" -> DashRunEnd(s, after)
             [] OTHER -> after

\* cleaned.replace(p, '') with the g flag, scanning from position i
RECURSIVE RemovePatternFrom(_, _, _)
RemovePatternFrom(s, p, i) ==
  IF i > Len(s) THEN <<>>
  ELSE LET e == MatchEnd(s, p, i)
       IN  IF e > 0
           THEN RemovePatternFrom(s, p, e)
           ELSE <<s[i]>> \o RemovePatternFrom(s, p, i + 1)

\* the loop over patternsToRemove, from pattern number n on
RECURSIVE RemovePatterns(_, _)
RemovePatterns(s, n) ==
  IF n > Len(patternsToRemove) THEN s
  ELSE RemovePatterns(RemovePatternFrom(s, patternsToRemove[n], 1), n + 1)

\* cleaned.split('\n')
RECURSIVE SplitLines(_)
SplitLines(s) ==
  LET e == EndOfLine(s, 1)
  IN  IF e > Len(s) THEN <<s>>
      ELSE <<SubSeq(s, 1, e - 1)>> \o SplitLines(From(s, e + 1))

\* lines.join('\n')
RECURSIVE JoinLines(_)
JoinLines(lines) ==
  IF lines = <<>> THEN <<>>
  ELSE IF Len(lines) = 1 THEN lines[1]
  ELSE lines[1] \o <<NL>> \o JoinLines(Tail(lines))

NonBlankLine(line) == Trim(line) # <<>>

cleanupPrompt(promptText) ==
  IF promptText = <<>> THEN <<>>
  ELSE LET cleaned == RemovePatterns(StripFences(promptText), 1)
           lines == SelectSeq(SplitLines(cleaned), NonBlankLine)
       IN  Trim(JoinLines(lines))

(***************************************************************************)
(* Classification (logger.ts 542-609)                                      *)
(***************************************************************************)
isSystemMessage(text) ==
  \/ Includes(text, <<"Session Started">>)
  \/ Includes(text, <<"Session Ended">>)
  \/ Includes(text, <<"Prompt at">>)
  \/ StartsWith(text, <<"system", ":">>)

responsePatterns ==
  { "Updated content goes here",
    "The content has been further updated",
    "Additional content has been added",
    "This ensures that all necessary details",
    "Key takeaways and actionable insights",
    "Further enhancements have been made",
    "Here is the implementation" }

\* text.startsWith(w) for a word w: the text begins with w itself or with a
\* literal that begins with w
BeginsWithThe(text) ==
  text # <<>> /\ Head(text) \in {"The", "The content has been further updated"}

BeginsWithThis(text) ==
  text # <<>> /\ Head(text) \in {"This", "This ensures that all necessary details"}

BeginsWithUpdates(text) == text # <<>> /\ Head(text) = "Updates"

looksLikeResponse(text) ==
  LET isTooLong == TextLength(text) > 100
      looksLikeComplete ==
        /\ BeginsWithThe(text) \/ BeginsWithThis(text) \/ BeginsWithUpdates(text)
        /\ Includes(text, <<".">>)
      containsCodeBlocks ==
        \/ Includes(text, <<FENCE>>)
        \/ Includes(text, <<"{">>) /\ Includes(text, <<"}">>) /\ Includes(text, <<";">>)
      containsExplanatory ==
        \/ Includes(text, <<"function">>)
        \/ Includes(text, <<"class">>)
        \/ Includes(text, <<"method">>)
        \/ Includes(text, <<"implements">>)
  IN  \/ \E pattern \in responsePatterns : Includes(text, <<pattern>>)
      \/ isTooLong /\ looksLikeComplete
      \/ isTooLong /\ containsCodeBlocks /\ containsExplanatory

\* a classifier that skips the response heuristic under "all" only
acceptsResponsesUnderAll(cleanPrompt, captureMode) ==
  /\ Trim(cleanPrompt) # <<>>
  /\ ~isSystemMessage(cleanPrompt)
  /\ ~(captureMode # "all" /\ looksLikeResponse(cleanPrompt))

\* a classifier that lets response-like text through in every capture mode
acceptsResponses(cleanPrompt, captureMode) ==
  /\ Trim(cleanPrompt) # <<>>
  /\ ~isSystemMessage(cleanPrompt)

\* the classifier of logPrompt (logger.ts 401-414): the cleaned text is kept
accepts(cleanPrompt, captureMode) ==
  /\ Trim(cleanPrompt) # <<>>
  /\ ~isSystemMessage(cleanPrompt)
  /\ ~(captureMode = "userInputOnly" /\ looksLikeResponse(cleanPrompt))

(***************************************************************************)
(* Context (logger.ts 549-562)                                             *)
(***************************************************************************)
\* a gate that lets earlier captured input through
shouldIncludeCapturedInput(context, promptText, includeContext) ==
  /\ context # <<>>
  /\ Trim(context) # <<>>
  /\ context # promptText
  /\ includeContext

shouldIncludeContext(context, promptText, includeContext) ==
  /\ context # <<>>
  /\ Trim(context) # <<>>
  /\ context # promptText
  /\ ~Includes(context, <<"User Input">>)
  /\ includeContext

\* the longest prefix of text of at most n characters (text.substring(0, n)
\* when the cut falls between two lexemes)
RECURSIVE Substring0(_, _)
Substring0(text, n) ==
  IF text = <<>> \/ Width(Head(text)) > n THEN <<>>
  ELSE <<Head(text)>> \o Substring0(Tail(text), n - Width(Head(text)))

\* a truncation that also cuts a text of exactly maxLength characters
truncateFromLimit(text, maxLength) ==
  IF TextLength(text) < maxLength THEN text
  ELSE Substring0(text, maxLength) \o <<TRUNCATED>>

truncateIfNeeded(text, maxLength) ==
  IF TextLength(text) <= maxLength THEN text
  ELSE Substring0(text, maxLength) \o <<TRUNCATED>>

(***************************************************************************)
(* Duplicate filter (logger.ts 199-200, 526-540)                           *)
(***************************************************************************)
MAX_RECENT_PROMPTS == 20

Range(seq) == {seq[i] : i \in 1..Len(seq)}

\* promptText.trim().toLowerCase()
Normalized(promptText) == ToLowerCase(Trim(promptText))

\* recentPrompts.unshift(x); if (length > MAX_RECENT_PROMPTS) recentPrompts.pop()
\* an unshift that never evicts
UnshiftUnbounded(x, recent) == <<x>> \o recent

\* an unshift that, once the history is full, drops the text just inserted
UnshiftKeepOldest(x, recent) ==
  IF Len(recent) + 1 > MAX_RECENT_PROMPTS THEN recent ELSE <<x>> \o recent

UnshiftBounded(x, recent) ==
  LET pushed == <<x>> \o recent
  IN  IF Len(pushed) > MAX_RECENT_PROMPTS
      THEN SubSeq(pushed, 1, Len(pushed) - 1)
      ELSE pushed

rememberPrompt(promptText, recent) == UnshiftBounded(Normalized(promptText), recent)

isDuplicate(promptText, recent) == Normalized(promptText) \in Range(recent)

(***************************************************************************)
(* Log entries (logger.ts 368-381, 419-437, 467-481, 506-511).  An entry   *)
(* is the formatted content handed to appendToLog, kept as its sections.   *)
(* The timestamp of the heading is not modelled.                           *)
(***************************************************************************)
NoContext == <<"<no context section>">>

\* vscode.workspace.asRelativePath(fileName, false)
asRelativePath(fileName) ==
  CASE fileName = "/w/src/a.ts" -> "src/a.ts"
    [] OTHER -> fileName

\* path.basename(fileName)
basename(fileName) ==
  CASE fileName = "/w/src/a.ts" -> "a.ts"
    [] OTHER -> fileName

SessionStartContent ==
  [kind |-> "## Session Started", source |-> "", context |-> NoContext, text |-> <<>>]

PromptContent(fileName, context, cleanPrompt, includeContext) ==
  [kind |-> "### User Prompt (#### Input)",
   source |-> asRelativePath(fileName),
   context |-> IF shouldIncludeContext(context, cleanPrompt, includeContext)
               THEN truncateIfNeeded(context, 500)
               ELSE NoContext,
   given |-> context,
   text |-> cleanPrompt]

UserInputContent(fileName, promptText) ==
  [kind |-> "### User Prompt",
   source |-> IF fileName = "Copilot Chat" THEN "Copilot Chat" ELSE basename(fileName),
   context |-> NoContext,
   text |-> promptText]

ChatMessageContent(message) ==
  [kind |-> "### Chat Message", source |-> "", context |-> NoContext, text |-> message]

\* !content || content.trim().length === 0: every formatted entry holds its
\* heading, so only an entry without a heading is blank
IsBlankContent(content) == content.kind = ""

(***************************************************************************)
(* The text of an entry as it is written to the file: the header of        *)
(* initLogFile (logger.ts 305), the session marker (370), the entries of   *)
(* logPrompt (424-436), logUserInput (475-482) and logChatMessage (506-    *)
(* 508), with the default timestamp format.                                *)
(***************************************************************************)
Fenced(text) == <<FENCE, NL>> \o text \o <<NL, FENCE, NL, NL>>

PromptHeading == <<NL, "#", "#", "#", SP, "User", SP, "Prompt at", SP, TS, NL, NL>>

SourceLine(source) == <<"Source", ":", SP, source, NL, NL>>

Separator == <<"-", "-", "-", NL>>

Rendered(content) ==
  CASE content.kind = "# GitHub Copilot Prompts Log" ->
         <<"#", SP, "GitHub Copilot Prompts Log", SP, "-", SP, LOCALE_DATE, NL,
           "This", SP, "file contains logs of prompts sent to GitHub Copilot", ".",
           NL, NL>>
    [] content.kind = "## Session Started" ->
         <<NL, "#", "#", SP, "Session Started", ":", SP, TS, NL, NL>>
    [] content.kind = "### User Prompt (#### Input)" ->
         PromptHeading \o SourceLine(content.source)
           \o (IF content.context = NoContext THEN <<>>
               ELSE <<"#", "#", "#", "#", SP, "Context", NL, NL>> \o Fenced(content.context))
           \o <<"#", "#", "#", "#", SP, "Input", NL, NL>> \o Fenced(content.text)
           \o Separator
    [] content.kind = "### User Prompt" ->
         PromptHeading \o SourceLine(content.source) \o Fenced(content.text) \o Separator
    [] content.kind = "### Chat Message" ->
         <<NL, "#", "#", "#", SP, "Chat Message at", SP, TS, NL, NL>>
           \o Fenced(content.text) \o Separator
    [] OTHER -> <<>>

(***************************************************************************)
(* State                                                                   *)
(***************************************************************************)
VARIABLES
  settings,       \* the host's configuration store (copilotPromptLogger.*)
  config,         \* ConfigManager.config: the snapshot getConfiguration returned
  configChanged,  \* an onDidChangeConfiguration notification is under way
  listeners,      \* copilotListenersDisposable is set (part_003 11)
  activated,      \* activate() has run
  workspaceOpen,  \* vscode.workspace.workspaceFolders is defined
  dirs,           \* the log directories that exist
  files,          \* the dated log file of each directory
  faults,         \* the file-system failures the environment may still cause
  recentPrompts,  \* CopilotLogger.recentPrompts
  ops,            \* the append operations started so far
  nCalls,         \* the calls that reached the duplicate filter's remember
  nCommands,      \* the enable and disable commands run
  microQ,         \* the promise continuations ready to run, in order
  copilotFound,   \* the host has the GitHub.copilot extension (copilot-api.ts 23)
  clipboard,      \* the host's clipboard: [text, epoch], epoch counts its changes
  reads,          \* the clipboard reads of the poller that have not returned
  timers,         \* the debounce timers of the poller that are pending
  inputTimeout,   \* CopilotApiInterceptor.inputTimeout: a timer id, 0 for null
  lastInput,      \* CopilotApiInterceptor.lastInput
  document,       \* the text of the active chat document: [text, epoch]
  lastCapturedText, \* lastCapturedText of startPollingForChatInput
  events,         \* what the sources did, in order: the capture events they
                  \* emitted and the clipboard reads whose failure they caught
  notices,        \* the notifications shown to the user by the capture sources
  thrown,         \* the exceptions and rejections no handler of the extension caught
  nPolls          \* the steps of the capture sources taken so far

\* the state of the capture sources
srcVars == <<copilotFound, clipboard, reads, timers, inputTimeout, lastInput, document,
             lastCapturedText, events, notices, thrown, nPolls>>

vars == <<settings, config, configChanged, listeners, activated, workspaceOpen,
          dirs, files, faults, recentPrompts, ops, nCalls, nCommands, microQ,
          copilotFound, clipboard, reads, timers, inputTimeout, lastInput, document,
          lastCapturedText, events, notices, thrown, nPolls>>

(***************************************************************************)
(* Bounds and input pools                                                  *)
(***************************************************************************)
\* calls of logPrompt, logUserInput and logChatMessage in a run that are not
\* dropped before the remember
MaxCalls == 2

\* enable and disable commands in a run
MaxCommands == 1

\* failures of file-system calls in a run
MaxFaults == 1

CaptureModes == {"userInputOnly", "inputAndResponse", "all"}

FileNames == {"/w/src/a.ts"}

Contexts == {<<"c">>}

\* the prompt texts the callers submit
Texts ==
  { <<"f">>,                       \* a plain prompt
    <<"F", SP>>,                   \* the same up to case and whitespace
    <<"f", "-", "-", "-">>,        \* a prompt that artifact-stripping changes
    <<"g">>,                       \* another prompt
    <<"Session Started">>,         \* a system message
    <<"Here is the implementation">>,  \* a known response phrase
    <<SP>> }                       \* blank

(***************************************************************************)
(* ConfigManager (copilot-api.ts 177-269).  getConfiguration returns a     *)
(* snapshot of the store; update() writes the store and the host then      *)
(* raises onDidChangeConfiguration, whose handler calls reloadConfig.      *)
(***************************************************************************)
isEnabled == config.enabled

getCaptureMode == config.captureMode

includeContext == config.includeContext

\* config.update('enabled', enabled, Global)
setEnabled(enabled) ==
  /\ settings' = [settings EXCEPT !.enabled = enabled]
  /\ configChanged' = TRUE
  /\ UNCHANGED config

reloadConfig == config' = settings

(***************************************************************************)
(* File system                                                             *)
(***************************************************************************)
Locations == {"workspace/copilot-prompts", "home/.vscode-copilot-logs",
              "home/.vscode/copilot-prompts"}

WorkspaceDir == "workspace/copilot-prompts"
HomeDir == "home/.vscode-copilot-logs"
AltDir == "home/.vscode/copilot-prompts"

NoFile == [exists |-> FALSE, content |-> <<>>]

Header ==
  [kind |-> "# GitHub Copilot Prompts Log", source |-> "", context |-> NoContext,
   text |-> <<>>, op |-> 0]

\* the entry of operation i as it stands in a file
Chunk(content, i) ==
  [kind |-> content.kind, source |-> content.source, context |-> content.context,
   text |-> content.text, op |-> i]

\* fs.appendFileSync(path, content): creates the file when it is absent
appendFileSync(file, chunk) ==
  [exists |-> TRUE, content |-> Append(file.content, chunk)]

\* the operations whose entry stands in some log file
OnDisk ==
  UNION {{c.op : c \in Range(files[l].content)} : l \in Locations} \ {0}

(***************************************************************************)
(* getLogFilePath (logger.ts 238-273): the outcomes [path, dirs] of one    *)
(* call.  A mkdirSync may fail.  In the workspace branch a failure is      *)
(* caught and the home branch runs; in the home branch it rejects.         *)
(***************************************************************************)
Rejected == "<rejected>"

\* `failed` counts the file-system calls that failed on the way, `tried` is
\* the set of locations where fs.mkdirSync was called.
HomeBranch(d, failed, tried) ==
  IF HomeDir \in d
  THEN {[path |-> HomeDir, dirs |-> d, failed |-> failed, tried |-> tried]}
  ELSE {[path |-> HomeDir, dirs |-> d \cup {HomeDir}, failed |-> failed,
         tried |-> tried \cup {HomeDir}],
        [path |-> Rejected, dirs |-> d, failed |-> failed + 1,
         tried |-> tried \cup {HomeDir}]}

getLogFilePath(workspace, d) ==
  IF workspace
  THEN IF WorkspaceDir \in d
       THEN {[path |-> WorkspaceDir, dirs |-> d, failed |-> 0, tried |-> {}]}
       ELSE {[path |-> WorkspaceDir, dirs |-> d \cup {WorkspaceDir}, failed |-> 0,
              tried |-> {WorkspaceDir}]}
            \cup HomeBranch(d, 1, {WorkspaceDir})
  ELSE HomeBranch(d, 0, {})

(***************************************************************************)
(* The synchronous part of an entry point, up to the first await of        *)
(* appendToLog (logger.ts 326-337): the enabled check, the blank check     *)
(* and the call of initLogFile, which runs getLogFilePath at once.         *)
(***************************************************************************)
NoContent == [kind |-> "", source |-> "", context |-> NoContext, text |-> <<>>]

\* an entry point may be called when no continuation of an earlier turn is
\* waiting: the callers' loops call it several times in one turn
TurnOpen == \A k \in Range(microQ) : ops[k].pc = "init"

CanCall == activated /\ TurnOpen

\* The record of one append operation.  pc: where it stands ("init",
\* "append", "sleep", "fallback", then "done", "rewritten" or "failed");
\* attempt: the loop variable of appendWithRetry; tries: the calls of
\* fs.appendFileSync made for it; off: a retry or the fallback of it ran
\* while isEnabled() was false; errs: the error messages
\* shown for it; api, raw: the entry point that started it and its text
\* argument; flag: the enabled setting as the commands last set it; enabled,
\* mode, before: isEnabled(), getCaptureMode() and recentPrompts as the call
\* found them; logged: the earlier operations for
\* the same text, up to letter case and surrounding whitespace, whose entry
\* was on disk when the call was made.
OpRecord(api, raw, before, content, path, tried) ==
  [api |-> api, raw |-> raw, content |-> content, path |-> path, tried |-> tried,
   pc |-> "init",
   attempt |-> 0, tries |-> 0, off |-> FALSE, errs |-> 0, flag |-> settings.enabled, enabled |-> isEnabled, mode |-> getCaptureMode,
   before |-> before,
   logged |-> {i \in OnDisk : Normalized(ops[i].raw) = Normalized(raw)}]

\* a writer without the enabled check
appendToLogAlways(api, raw, content) ==
  IF ~IsBlankContent(content)
  THEN \E r \in getLogFilePath(workspaceOpen, dirs) :
         /\ r.failed <= faults
         /\ faults' = faults - r.failed
         /\ dirs' = r.dirs
         /\ ops' = Append(ops, OpRecord(api, raw, recentPrompts, content, r.path, r.tried))
         /\ microQ' = Append(microQ, Len(ops) + 1)
  ELSE UNCHANGED <<dirs, faults, ops, microQ>>

\* appendToLog(content), called by `api` for the text `raw`
appendToLog(api, raw, content) ==
  IF isEnabled /\ ~IsBlankContent(content)
  THEN \E r \in getLogFilePath(workspaceOpen, dirs) :
         /\ r.failed <= faults
         /\ faults' = faults - r.failed
         /\ dirs' = r.dirs
         /\ ops' = Append(ops, OpRecord(api, raw, recentPrompts, content, r.path, r.tried))
         /\ microQ' = Append(microQ, Len(ops) + 1)
  ELSE UNCHANGED <<dirs, faults, ops, microQ>>

\* an early return of an entry point
Return ==
  UNCHANGED <<dirs, faults, ops, microQ, recentPrompts, nCalls>>

\* a call that goes on without remembering its text
RememberNothing(recent) ==
  /\ recentPrompts' = recentPrompts
  /\ nCalls' = nCalls + 1

\* the call goes on to remember its text
Remember(recent) ==
  /\ recentPrompts' = recent
  /\ nCalls' = nCalls + 1

(***************************************************************************)
(* Entry points                                                            *)
(***************************************************************************)
\* activate() (part_003 13-88): logSessionStart, then the listeners
Activate ==
  /\ ~activated
  /\ activated' = TRUE
  /\ listeners' = isEnabled
  /\ appendToLog("logSessionStart", <<>>, SessionStartContent)
  /\ UNCHANGED <<settings, config, configChanged, workspaceOpen, files, recentPrompts,
                 nCalls, nCommands>>
  /\ UNCHANGED srcVars

\* the checks of logPrompt before it remembers (logger.ts 387-414), in
\* their order: which one returns, if any
logPromptOutcome(promptText, recent, captureMode) ==
  IF promptText = <<>> \/ Trim(promptText) = <<>>
  THEN "empty"
  ELSE IF isDuplicate(promptText, recent)
  THEN "duplicate"
  ELSE IF ~accepts(cleanupPrompt(promptText), captureMode)
  THEN "rejected"
  ELSE "accepted"

\* logPrompt (logger.ts 386-441)
logPrompt(fileName, context, promptText) ==
  /\ CanCall
  /\ LET cleanPrompt == cleanupPrompt(promptText)
     IN  IF logPromptOutcome(promptText, recentPrompts, getCaptureMode) # "accepted"
         THEN Return
         ELSE /\ Remember(rememberPrompt(cleanPrompt, recentPrompts))
              /\ appendToLog("logPrompt", promptText,
                             PromptContent(fileName, context, cleanPrompt, includeContext))
  /\ UNCHANGED <<settings, config, configChanged, listeners, activated, workspaceOpen,
                 files, nCommands>>

\* logUserInput (logger.ts 447-488)
logUserInput(fileName, promptText) ==
  /\ CanCall
  /\ LET trimmed == Trim(promptText)
     IN  IF promptText = <<>> \/ trimmed = <<>>
         THEN Return
         ELSE IF isDuplicate(trimmed, recentPrompts)
         THEN Return
         ELSE /\ Remember(UnshiftBounded(trimmed, recentPrompts))
              /\ appendToLog("logUserInput", promptText, UserInputContent(fileName, trimmed))
  /\ UNCHANGED <<settings, config, configChanged, listeners, activated, workspaceOpen,
                 files, nCommands>>

\* logChatMessage (logger.ts 494-515)
logChatMessage(message) ==
  /\ CanCall
  /\ IF message = <<>> \/ Trim(message) = <<>>
     THEN Return
     ELSE IF isDuplicate(message, recentPrompts)
     THEN Return
     ELSE /\ Remember(rememberPrompt(message, recentPrompts))
          /\ appendToLog("logChatMessage", message, ChatMessageContent(message))
  /\ UNCHANGED <<settings, config, configChanged, listeners, activated, workspaceOpen,
                 files, nCommands>>

\* the enableLogging command (part_003 24-37)
EnableLogging ==
  /\ activated /\ microQ = <<>>
  /\ setEnabled(TRUE)
  /\ listeners' = TRUE
  /\ nCommands' = nCommands + 1
  /\ UNCHANGED <<activated, workspaceOpen, dirs, files, faults, recentPrompts, ops, nCalls,
                 microQ>>
  /\ UNCHANGED srcVars

\* the disableLogging command (part_003 39-50)
DisableLogging ==
  /\ activated /\ microQ = <<>>
  /\ setEnabled(FALSE)
  /\ listeners' = FALSE
  /\ nCommands' = nCommands + 1
  /\ UNCHANGED <<activated, workspaceOpen, dirs, files, faults, recentPrompts, ops, nCalls,
                 microQ>>
  /\ UNCHANGED srcVars

\* the onDidChangeConfiguration handler (part_003 130-135)
ConfigurationChanged ==
  /\ activated /\ microQ = <<>>
  /\ configChanged
  /\ reloadConfig
  /\ configChanged' = FALSE
  /\ UNCHANGED <<settings, listeners, activated, workspaceOpen, dirs, files, faults,
                 recentPrompts, ops, nCalls, nCommands, microQ>>
  /\ UNCHANGED srcVars

(***************************************************************************)
(* The asynchronous part of appendToLog.  A step runs the continuation at  *)
(* the head of microQ, or a retry timer once microQ is empty.              *)
(***************************************************************************)
\* options.maxRetries of the appendWithRetry call (logger.ts 342)
maxRetries == 3

\* an end of the operation that always shows one more message
FinishWithMessage(i, pc, errs) ==
  ops' = [ops EXCEPT ![i].pc = pc, ![i].errs = errs + 1, ![i].attempt = 0]

\* an end of the operation at which no message is shown
FinishSilently(i, pc, errs) ==
  ops' = [ops EXCEPT ![i].pc = pc, ![i].errs = 0, ![i].attempt = 0]

\* `attempt` is the loop variable of appendWithRetry: it is 0 outside the loop
Finish(i, pc, errs) ==
  ops' = [ops EXCEPT ![i].pc = pc, ![i].errs = errs, ![i].attempt = 0]

\* The outcomes [dirs, file, path, ok] of initLogFile after its await
\* (logger.ts 281-315) for the path p that getLogFilePath returned.
\*  - the directory is missing: mkdirSync, and when that fails the
\*    alternative directory, whose path is returned without a header check;
\*  - the file is missing: writeFileSync of the header, which may fail
\*    before the file is created or after it was created empty.
\* `failed` counts the file-system calls that failed on the way.
HeaderOutcomes(p, d, file, failed, tried) ==
  IF file.exists
  THEN {[dirs |-> d, file |-> file, path |-> p, ok |-> TRUE, failed |-> failed,
         tried |-> tried]}
  ELSE {[dirs |-> d, file |-> [exists |-> TRUE, content |-> <<Header>>], path |-> p,
         ok |-> TRUE, failed |-> failed, tried |-> tried],
        [dirs |-> d, file |-> file, path |-> p, ok |-> FALSE, failed |-> failed + 1,
         tried |-> tried],
        [dirs |-> d, file |-> [exists |-> TRUE, content |-> <<>>], path |-> p,
         ok |-> FALSE, failed |-> failed + 1, tried |-> tried]}

initLogFile(p, d, file) ==
  IF p \in d
  THEN HeaderOutcomes(p, d, file, 0, {})
  ELSE HeaderOutcomes(p, d \cup {p}, file, 0, {p})
       \cup {[dirs |-> d \cup {AltDir}, file |-> file, path |-> AltDir, ok |-> TRUE,
              failed |-> 1, tried |-> {p, AltDir}],
             [dirs |-> d, file |-> file, path |-> p, ok |-> FALSE, failed |-> 2,
              tried |-> {p, AltDir}]}

\* the continuation of initLogFile and of appendToLog's await of it
\* (logger.ts 280, 316-320, 337, 359-362): a failure shows two messages
InitLogFile(i) ==
  /\ microQ # <<>> /\ i = Head(microQ)
  /\ ops[i].pc = "init"
  /\ IF ops[i].path = Rejected
     THEN /\ Finish(i, "failed", 2)
          /\ microQ' = Tail(microQ)
          /\ UNCHANGED <<dirs, files, faults>>
     ELSE \E r \in initLogFile(ops[i].path, dirs, files[ops[i].path]) :
            /\ r.failed <= faults
            /\ faults' = faults - r.failed
            /\ dirs' = r.dirs
            /\ files' = [files EXCEPT ![ops[i].path] = r.file]
            /\ IF r.ok
               THEN /\ ops' = [ops EXCEPT ![i].pc = "append", ![i].path = r.path,
                                            ![i].tried = @ \cup r.tried]
                    /\ microQ' = Append(Tail(microQ), i)
               ELSE /\ Finish(i, "failed", 2)
                    /\ microQ' = Tail(microQ)
  /\ UNCHANGED <<settings, config, configChanged, listeners, activated, workspaceOpen,
                 recentPrompts, nCalls, nCommands>>
  /\ UNCHANGED srcVars

\* one fs.appendFileSync of appendWithRetry (logger.ts 216-229): it succeeds
\* only in a directory that exists, and may fail
AttemptOutcomes(i) ==
  (IF faults > 0 THEN {FALSE} ELSE {}) \cup (IF ops[i].path \in dirs THEN {TRUE} ELSE {})

\* an append that writes only while logging is enabled
AppendedIfEnabled(i) ==
  /\ files' = IF isEnabled
              THEN [files EXCEPT ![ops[i].path] = appendFileSync(@, Chunk(ops[i].content, i))]
              ELSE files
  /\ UNCHANGED faults

\* fs.appendFileSync returned
Appended(i) ==
  /\ files' = [files EXCEPT ![ops[i].path] = appendFileSync(@, Chunk(ops[i].content, i))]
  /\ UNCHANGED faults

\* an append that reports a failure after it has written the entry
WrittenButFailed(i) ==
  /\ files' = [files EXCEPT ![ops[i].path] = appendFileSync(@, Chunk(ops[i].content, i))]
  /\ faults' = faults - 1

NotAppended(i) ==
  /\ UNCHANGED files
  /\ faults' = faults - 1

\* a delay with less patience: the last retry is given up
MayRetryOnceLess(attempt) == attempt + 1 < maxRetries

\* if (attempt < options.maxRetries) of appendWithRetry (logger.ts 224): a
\* failed attempt is followed by the delay and one more attempt
MayRetry(attempt) == attempt < maxRetries

\* the first attempt, in the continuation of appendToLog (logger.ts 341)
FirstAttempt(i) ==
  /\ microQ # <<>> /\ i = Head(microQ)
  /\ ops[i].pc = "append"
  /\ \E ok \in AttemptOutcomes(i) :
       IF ok
       THEN /\ Appended(i)
            /\ ops' = [ops EXCEPT ![i].pc = "done", ![i].tries = 1]
            /\ microQ' = Tail(microQ)
       ELSE /\ NotAppended(i)
            /\ IF MayRetry(0)
               THEN /\ ops' = [ops EXCEPT ![i].pc = "sleep", ![i].tries = 1]
                    /\ microQ' = Tail(microQ)
               ELSE /\ ops' = [ops EXCEPT ![i].pc = "fallback", ![i].tries = 1]
                    /\ microQ' = Append(Tail(microQ), i)
  /\ UNCHANGED <<settings, config, configChanged, listeners, activated, workspaceOpen,
                 dirs, recentPrompts, nCalls, nCommands>>
  /\ UNCHANGED srcVars

\* the timer of the retry delay fires and the next attempt runs
\* (logger.ts 224-227, 216-219); after the last one appendWithRetry throws
RetryAttempt(i) ==
  /\ microQ = <<>>
  /\ i \in 1..Len(ops) /\ ops[i].pc = "sleep"
  /\ \E ok \in AttemptOutcomes(i) :
       IF ok
       THEN /\ Appended(i)
            /\ ops' = [ops EXCEPT ![i].pc = "done", ![i].attempt = 0, ![i].tries = @ + 1,
                                  ![i].off = @ \/ ~isEnabled]
            /\ UNCHANGED microQ
       ELSE /\ NotAppended(i)
            /\ IF MayRetry(ops[i].attempt + 1)
               THEN /\ ops' = [ops EXCEPT ![i].attempt = @ + 1, ![i].tries = @ + 1,
                                          ![i].off = @ \/ ~isEnabled]
                    /\ UNCHANGED microQ
               ELSE /\ ops' = [ops EXCEPT ![i].pc = "fallback", ![i].attempt = 0,
                                          ![i].tries = @ + 1, ![i].off = @ \/ ~isEnabled]
                    /\ microQ' = <<i>>
  /\ UNCHANGED <<settings, config, configChanged, listeners, activated, workspaceOpen,
                 dirs, recentPrompts, nCalls, nCommands>>
  /\ UNCHANGED srcVars

\* The outcomes [file, ok] of the fallback (logger.ts 353-357): readFileSync
\* of the whole file, then writeFileSync of it with the content added.  The
\* read may fail; the write may fail before the file is opened, or after the
\* open has truncated it.
\* a fallback that writes the new entry over the file
FallbackOverwrites(file, chunk, dirExists) ==
  {[file |-> file, ok |-> FALSE]}
  \cup (IF dirExists
        THEN {[file |-> [exists |-> TRUE, content |-> <<chunk>>], ok |-> TRUE],
              [file |-> [exists |-> TRUE, content |-> <<>>], ok |-> FALSE]}
        ELSE {})

FallbackOutcomes(file, chunk, dirExists) ==
  {[file |-> file, ok |-> FALSE]}
  \cup (IF dirExists
        THEN {[file |-> [exists |-> TRUE, content |-> Append(file.content, chunk)],
               ok |-> TRUE],
              [file |-> [exists |-> TRUE, content |-> <<>>], ok |-> FALSE]}
        ELSE {})

\* a failing outcome is one more failure of the file system
Allowed(r) == r.ok \/ faults > 0

\* the catch block of appendToLog (logger.ts 348-362): a failure of the
\* fallback shows one message
FallbackRewrite(i) ==
  /\ microQ # <<>> /\ i = Head(microQ)
  /\ ops[i].pc = "fallback"
  /\ microQ' = Tail(microQ)
  /\ \E r \in FallbackOutcomes(files[ops[i].path], Chunk(ops[i].content, i),
                               ops[i].path \in dirs) :
       /\ Allowed(r)
       /\ faults' = IF r.ok THEN faults ELSE faults - 1
       /\ files' = [files EXCEPT ![ops[i].path] = r.file]
       /\ IF r.ok THEN Finish(i, "rewritten", 0) ELSE Finish(i, "failed", 1)
  /\ UNCHANGED <<settings, config, configChanged, listeners, activated, workspaceOpen,
                 dirs, recentPrompts, nCalls, nCommands>>
  /\ UNCHANGED srcVars

(***************************************************************************)
(* Capture sources: the clipboard poller and the chat-input poller of      *)
(* CopilotApiInterceptor (copilot-api.ts 45-118), the clipboard commands   *)
(* (part_003 104-117, extension.ts 77-87), the status-bar menu (part_003   *)
(* 147-170) and the webview message listener (copilot-api.ts 381-387).     *)
(* A timer callback, the return of a clipboard read and a command are      *)
(* tasks of the event loop: they run when no continuation is waiting.      *)
(***************************************************************************)
\* the outcome of a vscode.env.clipboard.readText() that rejects
ReadError == <<"<read error>">>

\* steps of the capture sources in a run: polls, commands and messages
MaxPolls == 3

\* changes of the clipboard, and of the chat document, in a run
MaxCopies == 2

\* what the user copies, or types into the chat document
ClipTexts ==
  { <<"function">>,            \* a candidate of 8 characters
    <<"implements", "a">>,     \* another one, of 11 characters
    <<"f">> }                  \* too short for every source

SrcInit ==
  /\ copilotFound = TRUE
  /\ clipboard = [text |-> <<>>, epoch |-> 0]
  /\ reads = {}
  /\ timers = {}
  /\ inputTimeout = 0
  /\ lastInput = <<>>
  /\ document = [text |-> <<>>, epoch |-> 0]
  /\ lastCapturedText = <<>>
  /\ events = <<>>
  /\ notices = 0
  /\ thrown = 0
  /\ nPolls = 0

\* the setInterval of setupClipboardMonitoring (copilot-api.ts 47, 76) runs
\* from activation on; nothing ever clears it
clipboardPolling == activated /\ copilotFound

\* the setInterval of startPollingForChatInput (copilot-api.ts 86, 110, 99
\* of part_003) runs when the hook failed; only deactivation clears it
chatPolling == activated /\ ~copilotFound

\* the condition of the clipboard poller (copilot-api.ts 56-61)
ClipboardCandidate(clipboardText, last) ==
  /\ clipboardText # <<>>
  /\ clipboardText # last
  /\ TextLength(clipboardText) > 5
  /\ TextLength(clipboardText) < 500
  /\ ~Includes(clipboardText, <<FENCE>>)
  /\ ~Includes(clipboardText, <<"Prompt at">>)

\* the condition of the chat-input poller (copilot-api.ts 100-105)
ChatCandidate(text, last) ==
  /\ text # <<>>
  /\ text # last
  /\ TextLength(text) > 5
  /\ TextLength(text) < 500
  /\ ~Includes(text, <<"#">>)
  /\ ~Includes(text, <<FENCE>>)

\* a source hands a text to the logger
Emitted(source, text) ==
  events' = Append(events, [source |-> source, text |-> text,
                            clip |-> clipboard, doc |-> document])

\* the user copies a text
Copy(t) ==
  /\ clipboard.epoch < MaxCopies
  /\ t # clipboard.text
  /\ clipboard' = [text |-> t, epoch |-> clipboard.epoch + 1]
  /\ UNCHANGED <<settings, config, configChanged, listeners, activated, workspaceOpen,
                 dirs, files, faults, recentPrompts, ops, nCalls, nCommands, microQ,
                 copilotFound, reads, timers, inputTimeout, lastInput, document,
                 lastCapturedText, events, notices, thrown, nPolls>>

\* the user types into the chat document
EditDocument(t) ==
  /\ document.epoch < MaxCopies
  /\ t # document.text
  /\ document' = [text |-> t, epoch |-> document.epoch + 1]
  /\ UNCHANGED <<settings, config, configChanged, listeners, activated, workspaceOpen,
                 dirs, files, faults, recentPrompts, ops, nCalls, nCommands, microQ,
                 copilotFound, clipboard, reads, timers, inputTimeout, lastInput,
                 lastCapturedText, events, notices, thrown, nPolls>>

\* a tick of the 2-second interval (copilot-api.ts 47-49): the read starts
\* and returns later, with the text of the clipboard or with an error
ClipboardPoll ==
  /\ clipboardPolling /\ microQ = <<>>
  /\ nPolls < MaxPolls
  /\ nPolls' = nPolls + 1
  /\ \E v \in {clipboard.text, ReadError} :
       reads' = reads \cup {[id |-> nPolls + 1, value |-> v]}
  /\ UNCHANGED <<settings, config, configChanged, listeners, activated, workspaceOpen,
                 dirs, files, faults, recentPrompts, ops, nCalls, nCommands, microQ,
                 copilotFound, clipboard, timers, inputTimeout, lastInput, document,
                 lastCapturedText, events, notices, thrown>>

\* the catch of the poller (copilot-api.ts 73-75): the state after a read
\* that failed
ReadFailedStopsPolling(r) ==
  /\ reads' = {}
  /\ nPolls' = MaxPolls
  /\ Emitted("clipboard read failed", <<>>)
  /\ UNCHANGED <<timers, inputTimeout>>

ReadFailed(r) ==
  /\ reads' = reads \ {r}
  /\ Emitted("clipboard read failed", <<>>)
  /\ UNCHANGED <<timers, inputTimeout, nPolls>>

\* a read of the poller returns (copilot-api.ts 49-75): a candidate replaces
\* the pending debounce timer by a new one
ClipboardRead(r) ==
  /\ r \in reads /\ microQ = <<>>
  /\ IF r.value = ReadError
     THEN ReadFailed(r)
     ELSE /\ reads' = reads \ {r}
          /\ UNCHANGED <<nPolls, events>>
          /\ IF ClipboardCandidate(r.value, lastInput)
             THEN /\ timers' = {t \in timers : t.id # inputTimeout}
                                 \cup {[id |-> r.id, text |-> r.value]}
                  /\ inputTimeout' = r.id
             ELSE UNCHANGED <<timers, inputTimeout>>
  /\ UNCHANGED <<settings, config, configChanged, listeners, activated, workspaceOpen,
                 dirs, files, faults, recentPrompts, ops, nCalls, nCommands, microQ,
                 copilotFound, clipboard, lastInput, document, lastCapturedText,
                 notices, thrown>>

\* the debounce timer fires (copilot-api.ts 68-71)
DebounceFires(t) ==
  /\ t \in timers /\ microQ = <<>>
  /\ timers' = timers \ {t}
  /\ lastInput' = t.text
  /\ Emitted("clipboard", t.text)
  /\ logPrompt("Clipboard", <<"User Input">>, t.text)
  /\ UNCHANGED <<copilotFound, clipboard, reads, inputTimeout, document,
                 lastCapturedText, notices, thrown, nPolls>>

\* a tick of the 3-second interval (copilot-api.ts 86-110), the active
\* editor showing the chat document
ChatPoll ==
  /\ chatPolling /\ microQ = <<>>
  /\ nPolls < MaxPolls
  /\ nPolls' = nPolls + 1
  /\ IF ChatCandidate(document.text, lastCapturedText)
     THEN /\ lastCapturedText' = document.text
          /\ Emitted("chat", document.text)
          /\ logPrompt("Chat Input", <<>>, document.text)
     ELSE UNCHANGED <<settings, config, configChanged, listeners, activated,
                      workspaceOpen, dirs, files, faults, recentPrompts, ops, nCalls,
                      nCommands, microQ, lastCapturedText, events>>
  /\ UNCHANGED <<copilotFound, clipboard, reads, timers, inputTimeout, lastInput,
                 document, notices, thrown>>

\* the captureFromClipboard command (part_003 104-117), from the return of
\* its read on: a failed read shows an error message
CaptureFromClipboard ==
  /\ activated /\ microQ = <<>>
  /\ nPolls < MaxPolls
  /\ nPolls' = nPolls + 1
  /\ \E v \in {clipboard.text, ReadError} :
       IF v = ReadError
       THEN /\ notices' = notices + 1
            /\ UNCHANGED <<settings, config, configChanged, listeners, activated,
                           workspaceOpen, dirs, files, faults, recentPrompts, ops,
                           nCalls, nCommands, microQ>>
       ELSE /\ UNCHANGED notices
            /\ IF v # <<>> /\ TextLength(v) > 5
               THEN logUserInput("Clipboard", v)
               ELSE UNCHANGED <<settings, config, configChanged, listeners, activated,
                                workspaceOpen, dirs, files, faults, recentPrompts, ops,
                                nCalls, nCommands, microQ>>
  /\ UNCHANGED <<copilotFound, clipboard, reads, timers, inputTimeout, lastInput,
                 document, lastCapturedText, events, thrown>>

\* the checkClipboard command (extension.ts 77-87), from the return of its
\* read on: a failed read is written to the console only
CheckClipboard ==
  /\ activated /\ microQ = <<>>
  /\ nPolls < MaxPolls
  /\ nPolls' = nPolls + 1
  /\ \E v \in {clipboard.text, ReadError} :
       IF v # ReadError /\ v # <<>> /\ TextLength(v) > 10
       THEN logPrompt("Clipboard", <<"Manual Clipboard Check">>, v)
       ELSE UNCHANGED <<settings, config, configChanged, listeners, activated,
                        workspaceOpen, dirs, files, faults, recentPrompts, ops, nCalls,
                        nCommands, microQ>>
  /\ UNCHANGED <<copilotFound, clipboard, reads, timers, inputTimeout, lastInput,
                 document, lastCapturedText, events, notices, thrown>>

(***************************************************************************)
(* The log file as a source.  The file is prompt-log-<date>.md in a        *)
(* directory whose name holds "copilot"; when it is open in an editor the  *)
(* host reports what was appended to it as a text-document change.         *)
(***************************************************************************)
\* the entries that stand in some log file, as text
LogTexts ==
  UNION {{Rendered(files[l].content[k]) : k \in 1..Len(files[l].content)} : l \in Locations}

\* text.includes('session') and text.includes('context'), in lower case
MentionsSession(text) == \E i \in 1..Len(text) : text[i] \in {"session started", "session ended"}

MentionsContext(text) == Includes(text, <<"context">>)

\* the conditions of textDocChangeListener on a change (extension.ts 262-276)
IsUserInputChange(text) ==
  /\ text # <<>>
  /\ TextLength(text) > 5
  /\ TextLength(text) < 1000
  /\ ~Includes(text, <<FENCE>>)
  /\ ~Includes(text, <<"GitHub Copilot Prompts Log">>)
  /\ ~MentionsSession(text)
  /\ ~StartsWith(text, <<"#">>)
  /\ ~MentionsContext(text)

\* onDidChangeTextDocument for a change of the log file.  The listener of
\* part_003 (237-270) returns at once, the file name ends with ".md"; the
\* listener of extension.ts (248-281) takes the document, its name includes
\* "copilot".
textDocChangeListener(text) ==
  /\ activated /\ microQ = <<>>
  /\ nPolls < MaxPolls
  /\ nPolls' = nPolls + 1
  /\ IF isEnabled /\ IsUserInputChange(text)
     THEN /\ Emitted("document change", Trim(text))
          /\ logPrompt("User Input", <<>>, Trim(text))
     ELSE UNCHANGED <<settings, config, configChanged, listeners, activated,
                      workspaceOpen, dirs, files, faults, recentPrompts, ops, nCalls,
                      nCommands, microQ, events>>
  /\ UNCHANGED <<copilotFound, clipboard, reads, timers, inputTimeout, lastInput,
                 document, lastCapturedText, notices, thrown>>

\* the host reports an entry of the log file as a change
LogFileChanged == \E text \in LogTexts : textDocChangeListener(text)

\* the user copies an entry from the log file
CopyLogEntry == \E text \in LogTexts : Copy(text)

\* "Toggle Logging" of the status-bar menu (part_003 157-161)
ToggleLogging ==
  /\ activated /\ microQ = <<>>
  /\ nPolls < MaxPolls
  /\ nPolls' = nPolls + 1
  /\ setEnabled(~isEnabled)
  /\ UNCHANGED <<listeners, activated, workspaceOpen, dirs, files, faults,
                 recentPrompts, ops, nCalls, nCommands, microQ>>
  /\ UNCHANGED <<copilotFound, clipboard, reads, timers, inputTimeout, lastInput,
                 document, lastCapturedText, events, notices, thrown>>

(***************************************************************************)
(* Webview messages.  A payload is any JSON value; a value is modelled by  *)
(* its type and, for a string, its text.                                   *)
(***************************************************************************)
Undefined == [t |-> "undefined", v |-> <<>>]
Str(text) == [t |-> "string", v |-> text]
JsValues ==
  { Undefined, Str(<<>>), Str(<<"f">>), Str(<<SP>>),
    [t |-> "number", v |-> <<"0">>], [t |-> "number", v |-> <<"4", "2">>],
    [t |-> "boolean", v |-> <<"true">>], [t |-> "object", v |-> <<>>] }

\* a payload null stands for the messages that are no objects
Null == [type |-> "<null>", text |-> Undefined]
Payloads ==
  [type : {"userInput", "other", "<undefined>"}, text : JsValues] \cup {Null}

\* ToBoolean of a value
Truthy(x) ==
  CASE x.t = "undefined" -> FALSE
    [] x.t = "string" -> x.v # <<>>
    [] x.t = "number" -> x.v # <<"0">>
    [] x.t = "boolean" -> x.v = <<"true">>
    [] OTHER -> TRUE

\* the condition of the message listener (copilot-api.ts 383)
IsUserInputMessage(message) == message.type = "userInput" /\ Truthy(message.text)

\* a condition that also asks for a string
IsUserInputString(message) ==
  message.type = "userInput" /\ message.text.t = "string" /\ message.text.v # <<>>

\* the listener of setupWebviewListener (copilot-api.ts 382-387).  Reading
\* message.type of null throws; logUserInput (logger.ts 447-449) calls
\* promptText.trim(), which throws for a text that is no string, and the
\* listener does not handle the rejected promise.
WebviewMessage(message) ==
  /\ activated /\ microQ = <<>>
  /\ nPolls < MaxPolls
  /\ nPolls' = nPolls + 1
  /\ IF message = Null
     THEN /\ thrown' = thrown + 1
          /\ UNCHANGED <<settings, config, configChanged, listeners, activated,
                         workspaceOpen, dirs, files, faults, recentPrompts, ops, nCalls,
                         nCommands, microQ, events>>
     ELSE IF IsUserInputMessage(message)
     THEN /\ Emitted("webview", message.text.v)
          /\ IF message.text.t = "string"
             THEN logUserInput("Copilot Chat", message.text.v) /\ UNCHANGED thrown
             ELSE /\ thrown' = thrown + 1
                  /\ UNCHANGED <<settings, config, configChanged, listeners, activated,
                                 workspaceOpen, dirs, files, faults, recentPrompts, ops,
                                 nCalls, nCommands, microQ>>
     ELSE UNCHANGED <<settings, config, configChanged, listeners, activated,
                      workspaceOpen, dirs, files, faults, recentPrompts, ops, nCalls,
                      nCommands, microQ, events, thrown>>
  /\ UNCHANGED <<copilotFound, clipboard, reads, timers, inputTimeout, lastInput,
                 document, lastCapturedText, notices>>

(***************************************************************************)
(* Specification: the extension with its commands, the two entry points    *)
(* its listeners and commands call, and a file system that may fail.       *)
(***************************************************************************)
Init ==
  /\ settings \in [enabled : BOOLEAN, captureMode : CaptureModes, includeContext : {FALSE}]
  /\ config = settings
  /\ configChanged = FALSE
  /\ listeners = FALSE
  /\ activated = FALSE
  /\ workspaceOpen = TRUE
  /\ dirs = {}
  /\ files = [l \in Locations |-> NoFile]
  /\ faults = MaxFaults
  /\ recentPrompts = <<>>
  /\ ops = <<>>
  /\ nCalls = 0
  /\ nCommands = 0
  /\ microQ = <<>>
  /\ SrcInit

Next ==
  \/ Activate
  \/ nCalls < MaxCalls /\ \E f \in FileNames, c \in Contexts, t \in Texts : logPrompt(f, c, t)
          /\ UNCHANGED srcVars
  \/ nCalls < MaxCalls /\ \E f \in FileNames, t \in Texts : logUserInput(f, t)
          /\ UNCHANGED srcVars
  \/ nCommands < MaxCommands /\ EnableLogging
  \/ nCommands < MaxCommands /\ DisableLogging
  \/ ConfigurationChanged
  \/ \E i \in 1..Len(ops) : InitLogFile(i)
  \/ \E i \in 1..Len(ops) : FirstAttempt(i)
  \/ \E i \in 1..Len(ops) : RetryAttempt(i)

Spec == Init /\ [][Next]_vars

(***************************************************************************)
(* SpecWriter: logging stays enabled and the file system may fail often    *)
(* enough for the retries to run out and the fallback to fail as well.     *)
(***************************************************************************)
\* failures of file-system calls in a run of SpecWriter
MaxWriterFaults == 5

WriterTexts == { <<"f">>, <<"g">> }

InitWriter ==
  /\ settings = [enabled |-> TRUE, captureMode |-> "userInputOnly", includeContext |-> FALSE]
  /\ config = settings
  /\ configChanged = FALSE
  /\ listeners = FALSE
  /\ activated = FALSE
  /\ workspaceOpen = TRUE
  /\ dirs = {}
  /\ files = [l \in Locations |-> NoFile]
  /\ faults \in 0..MaxWriterFaults
  /\ recentPrompts = <<>>
  /\ ops = <<>>
  /\ nCalls = 0
  /\ nCommands = 0
  /\ microQ = <<>>
  /\ SrcInit

NextWriter ==
  \/ Activate
  \/ nCalls < MaxCalls
       /\ \E f \in FileNames, c \in Contexts, t \in WriterTexts : logPrompt(f, c, t)
          /\ UNCHANGED srcVars
  \/ \E i \in 1..Len(ops) : InitLogFile(i)
  \/ \E i \in 1..Len(ops) : FirstAttempt(i)
  \/ \E i \in 1..Len(ops) : RetryAttempt(i)
  \/ \E i \in 1..Len(ops) : FallbackRewrite(i)

SpecWriter == InitWriter /\ [][NextWriter]_vars

\* the event loop runs the continuations and timers that are due
AsyncStep ==
  \/ \E i \in 1..Len(ops) : InitLogFile(i)
  \/ \E i \in 1..Len(ops) : FirstAttempt(i)
  \/ \E i \in 1..Len(ops) : RetryAttempt(i)
  \/ \E i \in 1..Len(ops) : FallbackRewrite(i)

SpecWriterFair == SpecWriter /\ WF_vars(AsyncStep)

(***************************************************************************)
(* SpecToggle: as SpecWriter, with the enable and disable commands and the *)
(* configuration-change notification, which may come while an append is    *)
(* waiting for its retry.                                                  *)
(***************************************************************************)
NextToggle ==
  \/ Activate
  \/ nCalls < MaxCalls
       /\ \E f \in FileNames, c \in Contexts, t \in WriterTexts : logPrompt(f, c, t)
          /\ UNCHANGED srcVars
  \/ nCommands < MaxCommands /\ EnableLogging
  \/ nCommands < MaxCommands /\ DisableLogging
  \/ ConfigurationChanged
  \/ \E i \in 1..Len(ops) : InitLogFile(i)
  \/ \E i \in 1..Len(ops) : FirstAttempt(i)
  \/ \E i \in 1..Len(ops) : RetryAttempt(i)
  \/ \E i \in 1..Len(ops) : FallbackRewrite(i)

SpecToggle == InitWriter /\ [][NextToggle]_vars /\ WF_vars(AsyncStep)

(***************************************************************************)
(* SpecHist: a reliable file system and a long sequence of distinct        *)
(* prompts, so that the recent-prompt history fills up and evicts.         *)
(***************************************************************************)
\* calls in a run of SpecHist that are not dropped before the remember
MaxHistCalls == 26

Letters ==
  <<"a", "b", "c", "d", "e", "f", "g", "h", "i", "j", "k", "l", "m", "n", "o", "p",
    "q", "r", "s", "t", "u", "v", "w", "x", "y", "z", "0", "1">>

\* the n-th distinct prompt
HistPrompt(n) == <<Letters[n]>>

\* the prompts submitted so far
Submitted == {n \in 1..Len(Letters) : \E i \in 1..Len(ops) : ops[i].raw = HistPrompt(n)}

\* the next prompt never submitted before
Fresh == Cardinality(Submitted) + 1

InitHist ==
  /\ settings = [enabled |-> TRUE, captureMode |-> "userInputOnly", includeContext |-> FALSE]
  /\ config = settings
  /\ configChanged = FALSE
  /\ listeners = FALSE
  /\ activated = FALSE
  /\ workspaceOpen = TRUE
  /\ dirs = {}
  /\ files = [l \in Locations |-> NoFile]
  /\ faults = 0
  /\ recentPrompts = <<>>
  /\ ops = <<>>
  /\ nCalls = 0
  /\ nCommands = 0
  /\ microQ = <<>>
  /\ SrcInit

\* prompts arriving in one turn in a run of SpecHist
MaxBurst == 2

\* Fresh prompts arrive in order, at most MaxBurst of them in one turn, every
\* fifth one through logUserInput and every seventh one through
\* logChatMessage; any prompt submitted before may be submitted again
\* through logPrompt.
HistCall == nCalls < MaxHistCalls /\ Len(microQ) < MaxBurst

NextHist ==
  \/ Activate
  \/ /\ HistCall
     /\ Fresh <= Len(Letters)
     /\ Fresh % 5 # 0 /\ Fresh % 7 # 0
     /\ \E f \in FileNames, c \in Contexts : logPrompt(f, c, HistPrompt(Fresh))
          /\ UNCHANGED srcVars
  \/ /\ HistCall
     /\ \E f \in FileNames, c \in Contexts, n \in Submitted : logPrompt(f, c, HistPrompt(n))
          /\ UNCHANGED srcVars
  \/ /\ HistCall
     /\ Fresh <= Len(Letters)
     /\ Fresh % 5 = 0
     /\ \E f \in FileNames : logUserInput(f, HistPrompt(Fresh)) /\ UNCHANGED srcVars
  \/ /\ HistCall
     /\ Fresh <= Len(Letters)
     /\ Fresh % 5 # 0 /\ Fresh % 7 = 0
     /\ logChatMessage(HistPrompt(Fresh)) /\ UNCHANGED srcVars
  \/ \E i \in 1..Len(ops) : InitLogFile(i)
  \/ \E i \in 1..Len(ops) : FirstAttempt(i)

SpecHist == InitHist /\ [][NextHist]_vars

(***************************************************************************)
(* SpecSources: the clipboard poller in front of the writer of SpecWriter. *)
(* The file system may fail often enough for an append to fail for good,   *)
(* and a clipboard read may fail.                                          *)
(***************************************************************************)
\* polls in a run of SpecSources
MaxFaultyPolls == 2

InitSources ==
  /\ settings = [enabled |-> TRUE, captureMode |-> "userInputOnly", includeContext |-> FALSE]
  /\ config = settings
  /\ configChanged = FALSE
  /\ listeners = FALSE
  /\ activated = FALSE
  /\ workspaceOpen = TRUE
  /\ dirs = {}
  /\ files = [l \in Locations |-> NoFile]
  /\ faults \in {0, MaxWriterFaults}
  /\ recentPrompts = <<>>
  /\ ops = <<>>
  /\ nCalls = 0
  /\ nCommands = 0
  /\ microQ = <<>>
  /\ SrcInit

\* the host answers a clipboard read of the poller
ReadStep == \E r \in reads : ClipboardRead(r)

NextSources ==
  \/ Activate
  \/ \E t \in ClipTexts : Copy(t)
  \/ nPolls < MaxFaultyPolls /\ ClipboardPoll
  \/ \E r \in reads : ClipboardRead(r)
  \/ \E t \in timers : DebounceFires(t)
  \/ \E i \in 1..Len(ops) : InitLogFile(i)
  \/ \E i \in 1..Len(ops) : FirstAttempt(i)
  \/ \E i \in 1..Len(ops) : RetryAttempt(i)
  \/ \E i \in 1..Len(ops) : FallbackRewrite(i)

SpecSources ==
  InitSources /\ [][NextSources]_vars /\ WF_vars(AsyncStep) /\ WF_vars(ReadStep)

(***************************************************************************)
(* SpecPoller: the polling sources and the clipboard commands, with        *)
(* logging enabled and a file system that works.  The host has the Copilot *)
(* extension (the clipboard poller runs) or has not (the chat-input poller *)
(* runs).  Reads of the clipboard may fail and may return in any order.    *)
(***************************************************************************)
InitPoller ==
  /\ settings = [enabled |-> TRUE, captureMode |-> "userInputOnly", includeContext |-> FALSE]
  /\ config = settings
  /\ configChanged = FALSE
  /\ listeners = FALSE
  /\ activated = FALSE
  /\ workspaceOpen = TRUE
  /\ dirs = {}
  /\ files = [l \in Locations |-> NoFile]
  /\ faults = 0
  /\ recentPrompts = <<>>
  /\ ops = <<>>
  /\ nCalls = 0
  /\ nCommands = 0
  /\ microQ = <<>>
  /\ copilotFound \in BOOLEAN
  /\ clipboard = [text |-> <<>>, epoch |-> 0]
  /\ reads = {}
  /\ timers = {}
  /\ inputTimeout = 0
  /\ lastInput = <<>>
  /\ document = [text |-> <<>>, epoch |-> 0]
  /\ lastCapturedText = <<>>
  /\ events = <<>>
  /\ notices = 0
  /\ thrown = 0
  /\ nPolls = 0

NextPoller ==
  \/ Activate
  \/ \E t \in ClipTexts : Copy(t)
  \/ chatPolling /\ \E t \in ClipTexts : EditDocument(t)
  \/ ClipboardPoll
  \/ \E r \in reads : ClipboardRead(r)
  \/ \E t \in timers : DebounceFires(t)
  \/ ChatPoll
  \/ CaptureFromClipboard
  \/ CheckClipboard
  \/ \E i \in 1..Len(ops) : InitLogFile(i)
  \/ \E i \in 1..Len(ops) : FirstAttempt(i)

SpecPoller == InitPoller /\ [][NextPoller]_vars

(***************************************************************************)
(* SpecContext: logPrompt with contexts of every kind (empty, blank, equal *)
(* to the prompt, holding "User Input", short, of 499, 500, 501 and 600    *)
(* characters), with includeContext on or off.                             *)
(***************************************************************************)
ContextPool ==
  { <<>>,
    <<SP>>,
    <<"f">>,
    <<"c">>,
    <<"c", SP, "User Input">>,
    <<PROSE, PROSE, PROSE, FILL, FILL, "c", "c", "c", "c">>,           \* 499
    <<PROSE, PROSE, PROSE, PROSE, FILL>>,                              \* 500
    <<PROSE, PROSE, PROSE, PROSE, FILL, "c">>,                         \* 501
    <<PROSE, PROSE, PROSE, PROSE, FILL, FILL, "c", "c", "c", "c">> }   \* 600

ContextTexts == { <<"f">>, <<"f", "-", "-", "-">>, <<"g">> }

InitContext ==
  /\ settings \in [enabled : {TRUE}, captureMode : {"userInputOnly"},
                   includeContext : BOOLEAN]
  /\ config = settings
  /\ configChanged = FALSE
  /\ listeners = FALSE
  /\ activated = FALSE
  /\ workspaceOpen = TRUE
  /\ dirs = {}
  /\ files = [l \in Locations |-> NoFile]
  /\ faults = 0
  /\ recentPrompts = <<>>
  /\ ops = <<>>
  /\ nCalls = 0
  /\ nCommands = 0
  /\ microQ = <<>>
  /\ SrcInit

NextContext ==
  \/ Activate
  \/ nCalls < MaxCalls
       /\ \E f \in FileNames, c \in ContextPool, t \in ContextTexts : logPrompt(f, c, t)
          /\ UNCHANGED srcVars
  \/ \E i \in 1..Len(ops) : InitLogFile(i)
  \/ \E i \in 1..Len(ops) : FirstAttempt(i)

SpecContext == InitContext /\ [][NextContext]_vars

(***************************************************************************)
(* SpecListeners: logging is switched by the enable and disable commands   *)
(* and by "Toggle Logging" of the status bar while the pollers run.        *)
(***************************************************************************)
NextListeners ==
  \/ Activate
  \/ nCommands < MaxCommands /\ EnableLogging
  \/ nCommands < MaxCommands /\ DisableLogging
  \/ ToggleLogging
  \/ ConfigurationChanged
  \/ \E t \in ClipTexts : Copy(t)
  \/ chatPolling /\ \E t \in ClipTexts : EditDocument(t)
  \/ ClipboardPoll
  \/ \E r \in reads : ClipboardRead(r)
  \/ \E t \in timers : DebounceFires(t)
  \/ ChatPoll
  \/ \E i \in 1..Len(ops) : InitLogFile(i)
  \/ \E i \in 1..Len(ops) : FirstAttempt(i)

SpecListeners == InitPoller /\ [][NextListeners]_vars

(***************************************************************************)
(* SpecWebview: the webview of the chat panel posts messages of any shape  *)
(* to the listener of setupWebviewListener.                                *)
(***************************************************************************)
NextWebview ==
  \/ Activate
  \/ \E message \in Payloads : WebviewMessage(message)
  \/ \E i \in 1..Len(ops) : InitLogFile(i)
  \/ \E i \in 1..Len(ops) : FirstAttempt(i)

SpecWebview == InitPoller /\ [][NextWebview]_vars

(***************************************************************************)
(* SpecEcho: prompts are logged, the log file is open in an editor, and    *)
(* the user copies entries of it and runs the checkClipboard command.      *)
(***************************************************************************)
NextEcho ==
  \/ Activate
  \/ nCalls < MaxCalls
       /\ \E f \in FileNames, c \in Contexts, t \in WriterTexts : logPrompt(f, c, t)
          /\ UNCHANGED srcVars
  \/ LogFileChanged
  \/ CopyLogEntry
  \/ CheckClipboard
  \/ \E i \in 1..Len(ops) : InitLogFile(i)
  \/ \E i \in 1..Len(ops) : FirstAttempt(i)

SpecEcho == InitPoller /\ [][NextEcho]_vars

(***************************************************************************)
(* SpecClean: logPrompt called once with any text of up to MaxLen lexemes  *)
(* over dashes, a timestamp, a letter and a line break, the material of    *)
(* the artifact patterns of cleanupPrompt.                                 *)
(***************************************************************************)
\* lexemes of a text submitted in SpecClean
MaxLen == 4

\* calls of logPrompt in a run of SpecClean
MaxCleanCalls == 1

CleanAlphabet == {"-", TS, "f", NL}

CleanInputs == UNION {[1..k -> CleanAlphabet] : k \in 0..MaxLen}

NextClean ==
  \/ Activate
  \/ nCalls < MaxCleanCalls
       /\ \E f \in FileNames, c \in Contexts, t \in CleanInputs : logPrompt(f, c, t)
          /\ UNCHANGED srcVars
  \/ \E i \in 1..Len(ops) : InitLogFile(i)
  \/ \E i \in 1..Len(ops) : FirstAttempt(i)

SpecClean == InitHist /\ [][NextClean]_vars

(***************************************************************************)
(* Properties                                                              *)
(***************************************************************************)
\* the operations started by an entry point
OpsOf(api) == {i \in 1..Len(ops) : ops[i].api = api}

\* C1: a logPrompt call whose text equals, up to letter case and surrounding
\* whitespace, the text of an earlier logPrompt call that was logged and
\* whose remembered key is still in the history, writes no entry.
C1_LogPromptSuppressesRepeat ==
  \A j \in OpsOf("logPrompt") :
    \A i \in ops[j].logged :
      (/\ ops[i].api = "logPrompt"
       /\ Normalized(ops[i].content.text) \in Range(ops[j].before))
        => j \notin OnDisk

\* C2: a logUserInput call whose text equals, up to letter case and
\* surrounding whitespace, the text of an earlier logUserInput call that was
\* logged and whose remembered text is still in the history, writes no entry.
C2_LogUserInputSuppressesRepeat ==
  \A j \in OpsOf("logUserInput") :
    \A i \in ops[j].logged :
      (/\ ops[i].api = "logUserInput"
       /\ ops[i].content.text \in Range(ops[j].before))
        => j \notin OnDisk

\* the prompt entries of logPrompt standing in a log file
PromptEntries ==
  UNION {{c \in Range(files[l].content) : c.kind = "### User Prompt (#### Input)"} :
         l \in Locations}

\* C3: every prompt entry on disk was written for a logPrompt call whose text
\* was not blank, was not flagged by isDuplicate against the history the
\* call found, and whose cleaned text (the text of the entry) is not blank,
\* is no system message and, under captureMode userInputOnly, does not look
\* like a response.
C3_EntriesOnlyForAcceptedEvents ==
  \A c \in PromptEntries :
    /\ c.op \in OpsOf("logPrompt")
    /\ LET o == ops[c.op]
       IN  /\ c = Chunk(o.content, c.op)
           /\ c.text = cleanupPrompt(o.raw)
           /\ Trim(o.raw) # <<>>
           /\ Normalized(o.raw) \notin Range(o.before)
           /\ Trim(c.text) # <<>>
           /\ ~isSystemMessage(c.text)
           /\ o.mode = "userInputOnly" => ~looksLikeResponse(c.text)

\* C3 witness: a response-like text stands on disk (logged under another
\* capture mode) next to the entry of a text that cleanup changed
C3_Witness ==
  /\ \E c \in PromptEntries : looksLikeResponse(c.text)
  /\ \E c \in PromptEntries : c.text # ops[c.op].raw

\* C4: a logPrompt or logUserInput call made while the enabled setting is
\* false, as the commands last set it, writes no entry.
C4_NoEntryWhileDisabled ==
  \A i \in OpsOf("logPrompt") \cup OpsOf("logUserInput") :
    ~ops[i].flag => i \notin OnDisk

\* C5: while logging is disabled (isEnabled() is false) no step changes
\* recentPrompts.
C5_DisabledCallLeavesHistory ==
  [][~isEnabled => recentPrompts' = recentPrompts]_vars

\* the text an operation's call has put into recentPrompts
RememberedKey(i) ==
  IF ops[i].api = "logUserInput"
  THEN ops[i].content.text
  ELSE Normalized(ops[i].content.text)

\* no operation is under way
Quiescent == \A i \in 1..Len(ops) : ops[i].pc \in {"done", "rewritten", "failed"}

\* C6: once every operation has ended, the text of a logPrompt or
\* logUserInput operation that failed and has no entry on disk is not in
\* recentPrompts.
C6_FailedAppendNotRemembered ==
  Quiescent =>
    \A i \in OpsOf("logPrompt") \cup OpsOf("logUserInput") :
      (ops[i].pc = "failed" /\ i \notin OnDisk) => RememberedKey(i) \notin Range(recentPrompts)

\* C7: recentPrompts never holds more than MAX_RECENT_PROMPTS texts.
C7_HistoryBounded == Len(recentPrompts) <= MAX_RECENT_PROMPTS

\* C7 witness: each of logPrompt, logUserInput and logChatMessage has
\* remembered a text when the history was full
C7_Witness ==
  /\ Len(recentPrompts) = MAX_RECENT_PROMPTS
  /\ \A api \in {"logPrompt", "logUserInput", "logChatMessage"} :
       \E i \in OpsOf(api) : Len(ops[i].before) = MAX_RECENT_PROMPTS

\* the calls that remembered a text, in order: in SpecHist every such call
\* starts an operation, after the one of logSessionStart
Remembering == IF ops = <<>> THEN 0 ELSE Len(ops) - 1

RECURSIVE CountIn(_, _)
\* the entries of operation i in a sequence of entries
CountIn(content, i) ==
  IF content = <<>> THEN 0
  ELSE (IF Head(content).op = i THEN 1 ELSE 0) + CountIn(Tail(content), i)

RECURSIVE SumOver(_, _)
SumOver(locs, i) ==
  IF locs = {} THEN 0
  ELSE LET l == CHOOSE x \in locs : TRUE
       IN  CountIn(files[l].content, i) + SumOver(locs \ {l}, i)

\* the entries of operation i in the log files
Count(i) == SumOver(Locations, i)

IsPrefix(s, t) == Len(s) <= Len(t) /\ SubSeq(t, 1, Len(s)) = s

\* C10 as stated: in every step the previous content of each log file is a
\* prefix of its new content.
C10_AppendOnly ==
  [][\A l \in Locations : IsPrefix(files[l].content, files'[l].content)]_vars

\* C10 amended: in every step the previous content of each log file is a
\* prefix of its new content, unless the step is a fallback rewrite that
\* fails, which may leave the file of its operation empty.
C10_AppendOnlyUnlessRewriteFails ==
  [][\A l \in Locations :
       \/ IsPrefix(files[l].content, files'[l].content)
       \/ /\ files'[l].content = <<>>
          /\ \E i \in 1..Len(ops) :
               ops[i].path = l /\ ops[i].pc = "fallback" /\ ops'[i].pc = "failed"]_vars

\* C10 witness: a fallback rewrite has added its entry behind the header and
\* an entry written by a plain append
C10_Witness ==
  \E l \in Locations, i \in 1..Len(ops) :
    /\ ops[i].pc = "rewritten"
    /\ Len(files[l].content) >= 3
    /\ files[l].content[1] = Header
    /\ files[l].content[Len(files[l].content)].op = i

\* the header lines standing in a sequence of entries
RECURSIVE Headers(_)
Headers(content) ==
  IF content = <<>> THEN 0
  ELSE (IF Head(content) = Header THEN 1 ELSE 0) + Headers(Tail(content))

\* C11: every log file that holds an entry begins with the header and holds
\* the header once.
C11_HeaderOnceAtTop ==
  \A l \in Locations :
    (\E c \in Range(files[l].content) : c.op # 0)
      => (files[l].content[1] = Header /\ Headers(files[l].content) = 1)

\* C12: the attempts of an operation are made one at a time; an attempt
\* that succeeds ends the operation with its entry written, and no attempt
\* follows it; an attempt that fails is followed by the delay (the next one
\* runs from the timer) unless it is the fourth, after which the append has
\* failed and the fallback is queued at once, without a delay.
C12_RetryPolicy ==
  [][\A i \in 1..Len(ops) :
       /\ ops'[i].tries \in {ops[i].tries, ops[i].tries + 1}
       /\ ops'[i].tries = ops[i].tries + 1 =>
            /\ ops[i].pc \in {"append", "sleep"}
            /\ ops[i].pc = "sleep" => microQ = <<>>
            /\ \/ Count(i)' = 1 /\ ops'[i].pc = "done"
               \/ /\ Count(i)' = 0
                  /\ ops'[i].tries < maxRetries + 1
                  /\ ops'[i].pc = "sleep"
                  /\ i \notin Range(microQ')
               \/ /\ Count(i)' = 0
                  /\ ops'[i].tries = maxRetries + 1
                  /\ ops'[i].pc = "fallback"
                  /\ i \in Range(microQ')
       /\ ops[i].pc = "done" => ops'[i] = ops[i]
       /\ (ops[i].pc # "fallback" /\ ops'[i].pc = "fallback")
            => ops'[i].tries = ops[i].tries + 1]_vars

\* C12 witness: one operation has stopped at the first attempt that
\* succeeded, a retry, and another has failed all four
C12_Witness ==
  \E i, j \in 1..Len(ops) :
    /\ ops[i].pc = "done" /\ ops[i].tries \in 2..maxRetries
    /\ ops[j].pc = "fallback" /\ ops[j].tries = maxRetries + 1

\* the operation's promise has resolved
Ended == {"done", "rewritten", "failed"}

\* C13: every append operation ends, and ends by resolving: once ended it
\* stays as it is; the fallback, reached after the last failed attempt, runs
\* once and ends the operation, written or failed; and an operation that
\* failed (in initLogFile or in the fallback) has shown an error message.
C13_AlwaysEndsWithoutThrowing ==
  /\ [][\A i \in 1..Len(ops) :
          /\ ops[i].pc \in Ended => ops'[i] = ops[i]
          /\ (ops[i].pc = "fallback" /\ ops'[i] # ops[i])
               => ops'[i].pc \in {"rewritten", "failed"}
          /\ (ops'[i].pc = "fallback" /\ ops[i].pc # "fallback")
               => ops'[i].tries = maxRetries + 1
          /\ ops'[i].pc = "failed" => ops'[i].errs >= 1]_vars
  /\ \A i \in 1..(MaxCalls + 1) : [](Len(ops) >= i => <>(Len(ops) >= i /\ ops[i].pc \in Ended))

\* C13 witness: everything has ended, one operation after four failed
\* attempts and a failed fallback
C13_Witness ==
  /\ Len(ops) >= 2
  /\ Quiescent
  /\ \E i \in 1..Len(ops) :
       ops[i].pc = "failed" /\ ops[i].tries = maxRetries + 1 /\ ops[i].errs = 1

\* C14: an operation whose entry was written, by an append attempt or by
\* the fallback rewrite, has shown no error message, and an operation whose
\* fallback rewrite failed has shown exactly one.
C14_MessageOnlyWhenFallbackFails ==
  \A i \in 1..Len(ops) :
    /\ ops[i].pc \in {"done", "rewritten"} => ops[i].errs = 0
    /\ (ops[i].pc = "failed" /\ ops[i].tries = maxRetries + 1) => ops[i].errs = 1

\* C14 witness: one operation was written by the fallback rewrite after four
\* failed attempts, another by a retry
C14_Witness ==
  \E i, j \in 1..Len(ops) :
    /\ ops[i].pc = "rewritten" /\ ops[i].tries = maxRetries + 1 /\ i \in OnDisk
    /\ ops[j].pc = "done" /\ ops[j].tries >= 2 /\ j \in OnDisk

\* the operations started by the capture entry points
Captures == OpsOf("logPrompt") \cup OpsOf("logUserInput")

\* C15 as stated: the duplicate check and the remember of one event are not
\* one atomic step, that is, the step in which a call passes the duplicate
\* check does not change recentPrompts.
C15_CheckThenRememberLater ==
  [][nCalls' # nCalls => recentPrompts' = recentPrompts]_vars

\* C15 amended: the check and the remember of a call are one step, so every
\* later call finds the text of every earlier accepted call in
\* recentPrompts, unless the history was full by then.
C15_RememberedBeforeNextCheck ==
  \A i, j \in Captures :
    i < j => \/ RememberedKey(i) \in Range(ops[j].before)
             \/ Len(ops[j].before) = MAX_RECENT_PROMPTS

\* C15 witness: two events with the same normalized text arrived in the same
\* turn, both operations are still at their first await, and the second
\* found the text of the first remembered
C15_Witness ==
  \E i, j \in Captures :
    /\ i < j
    /\ ops[i].pc = "init" /\ ops[j].pc = "init"
    /\ Normalized(ops[i].raw) = Normalized(ops[j].raw)
    /\ RememberedKey(i) \in Range(ops[j].before)

\* C16: every operation was started while isEnabled() was true and is never
\* aborted afterwards, whatever isEnabled() says by then: an operation
\* waiting for its retry goes on waiting, is written, or reaches the fallback
\* after its fourth attempt; an attempt or a fallback rewrite that the file
\* system lets through writes the entry; and an operation that waits for
\* its retry while logging is disabled still comes to its end.
C16_DisabledMidFlightStillCompletes ==
  /\ [][\A i \in 1..Len(ops) :
          /\ ops[i].enabled
          /\ (ops'[i].tries = ops[i].tries + 1 /\ faults' = faults)
               => (Count(i)' = 1 /\ ops'[i].pc = "done")
          /\ (ops[i].pc = "fallback" /\ ops'[i].pc # "fallback" /\ faults' = faults)
               => (Count(i)' = 1 /\ ops'[i].pc = "rewritten")
          /\ ops[i].pc = "sleep" => ops'[i].pc \in {"sleep", "done", "fallback"}
          /\ (ops[i].pc = "sleep" /\ ops'[i].pc = "fallback")
               => ops'[i].tries = maxRetries + 1]_vars
  /\ \A i \in 1..(MaxCalls + 1) :
       []((Len(ops) >= i /\ ops[i].pc = "sleep" /\ ~isEnabled)
            => <>(Len(ops) >= i /\ ops[i].pc \in Ended))

\* C16 witness: logging is disabled, and the entries of two operations were
\* written while it was, one by a retry and one by the fallback rewrite
C16_Witness ==
  /\ ~isEnabled
  /\ \E i, j \in 1..Len(ops) :
       /\ ops[i].off /\ ops[i].pc = "done" /\ i \in OnDisk
       /\ ops[j].off /\ ops[j].pc = "rewritten" /\ j \in OnDisk

\* C17: a capture call that gets past the duplicate filter and the
\* classifier starts an append operation exactly when the enabled setting,
\* as the commands last set it, is true.
C17_EachCallSeesTheSetting ==
  [][nCalls' # nCalls => (Len(ops') > Len(ops) <=> settings.enabled)]_vars

\* C18: a text that is not blank, not a duplicate and, cleaned, neither
\* blank nor a system message passes the checks of logPrompt unless the
\* capture mode is userInputOnly and the cleaned text looks like a response;
\* and no entry on disk written under userInputOnly looks like a response.
C18_ResponseRuleOnlyInUserInputOnly ==
  /\ \A t \in Texts :
       LET clean == cleanupPrompt(t)
       IN  (/\ Trim(t) # <<>>
            /\ Normalized(t) \notin Range(recentPrompts)
            /\ Trim(clean) # <<>>
            /\ ~isSystemMessage(clean))
             => (logPromptOutcome(t, recentPrompts, getCaptureMode) = "accepted"
                   <=> ~(getCaptureMode = "userInputOnly" /\ looksLikeResponse(clean)))
  /\ \A c \in PromptEntries :
       ops[c.op].mode = "userInputOnly" => ~looksLikeResponse(c.text)

\* C18 witness: under inputAndResponse a response-like text and a plain
\* prompt both have their entry on disk
C18_Witness ==
  /\ getCaptureMode = "inputAndResponse"
  /\ \E c \in PromptEntries : looksLikeResponse(c.text)
  /\ \E c \in PromptEntries : c.text = <<"g">>

(***************************************************************************)
(* C19.  A capture event whose text is empty, whitespace-only, empty after *)
(* artifact stripping, contains "Session Started", "Session Ended" or      *)
(* "Prompt at", or starts with "system:", produces no entry and adds       *)
(* nothing to the history, through logPrompt and through logUserInput      *)
(* alike.  Stated on the state: no capture operation was started for such  *)
(* a text, no such operation has its entry on disk, and the history holds  *)
(* no such text.  logUserInput (logger.ts 447-465) only trims and checks   *)
(* duplicates, so logUserInput("Session Started") violates it.             *)
(***************************************************************************)
IsNonEvent(text) ==
  \/ Trim(text) = <<>>
  \/ Trim(cleanupPrompt(text)) = <<>>
  \/ isSystemMessage(cleanupPrompt(text))
  \/ isSystemMessage(text)

C19_NothingForEmptyOrSystemText ==
  /\ \A i \in Captures : ~IsNonEvent(ops[i].raw)
  /\ \A t \in Texts : IsNonEvent(t) => Normalized(t) \notin Range(recentPrompts)

(***************************************************************************)
(* C20.  The log directory is resolved by trying the candidate locations   *)
(* in order (workspace copilot-prompts, home .vscode-copilot-logs, then    *)
(* the secondary home path .vscode/copilot-prompts), and an operation is   *)
(* dropped with an error message for want of a directory only when         *)
(* creation was tried, and failed, at every candidate location.  The       *)
(* secondary location is tried only inside initLogFile (logger.ts          *)
(* 286-299), which runs after getLogFilePath returned; a mkdirSync that    *)
(* throws in the home branch of getLogFilePath (268-270) rejects first.    *)
(***************************************************************************)
C20_ErrorOnlyAfterEveryLocation ==
  \A i \in 1..Len(ops) :
    (ops[i].pc = "failed" /\ ops[i].path = Rejected)
      => /\ {HomeDir, AltDir} \subseteq ops[i].tried
         /\ workspaceOpen => WorkspaceDir \in ops[i].tried

(***************************************************************************)
(* C21.  Failures are not sticky.  After an append that failed for good,   *)
(* and after a clipboard read that failed, the pipeline goes on working:   *)
(* a failed read takes nothing with it but itself (the other reads and the *)
(* polls to come stay), a read that returns a candidate sets the debounce  *)
(* timer, a clipboard event whose text passes the checks of logPrompt      *)
(* starts an append operation whatever happened before, and an operation   *)
(* that starts while the file system works ends with its entry on disk.    *)
(* Every read returns.                                                     *)
(***************************************************************************)
LastEvent == events'[Len(events')]

\* a read that leaves takes nothing with it, and sets the timer if it
\* returned a candidate
C21_ReadStep ==
  \A r \in reads \ reads' :
    /\ reads' = reads \ {r}
    /\ nPolls' = nPolls
    /\ (r.value # ReadError /\ ClipboardCandidate(r.value, lastInput))
         => [id |-> r.id, text |-> r.value] \in timers'

\* a clipboard event whose text passes the checks starts an operation
C21_EventStep ==
  ( /\ Len(events') > Len(events)
    /\ LastEvent.source = "clipboard"
    /\ logPromptOutcome(LastEvent.text, recentPrompts, getCaptureMode) = "accepted" )
    => ( /\ Len(ops') = Len(ops) + 1
         /\ ops'[Len(ops')].raw = LastEvent.text )

C21_FailuresNotSticky ==
  /\ [][C21_ReadStep /\ C21_EventStep]_vars
  /\ \A i \in 1..(MaxFaultyPolls + 1) :
       []((Len(ops) >= i /\ ops[i].pc = "init" /\ ops[i].path # Rejected /\ faults = 0)
            => <>(Len(ops) >= i /\ i \in OnDisk))
  /\ \A id \in 1..MaxFaultyPolls :
       []((\E r \in reads : r.id = id) => <>(\A r \in reads : r.id # id))

\* C21 witness: an append failed for good and a clipboard read failed, and a
\* prompt the poller captured afterwards is on disk.
C21_Witness ==
  \E i, j \in 1..Len(ops) :
    /\ i < j
    /\ ops[i].pc = "failed" /\ ops[i].tries = maxRetries + 1
    /\ ops[j].api = "logPrompt" /\ j \in OnDisk
    /\ \E k, l \in 1..Len(events) :
         /\ k < l
         /\ events[k].source = "clipboard read failed"
         /\ events[l].source = "clipboard" /\ events[l].text = ops[j].raw

(***************************************************************************)
(* C22.  A clipboard read that fails is silently ignored by every          *)
(* clipboard source: no step of a clipboard source shows a notification    *)
(* for a failed read, and the step in which the poller catches a failed    *)
(* read changes neither the operations, the files, the history, lastInput  *)
(* nor the debounce timer.  The captureFromClipboard command (part_003     *)
(* 113-116) shows "Failed to read from clipboard".                         *)
(***************************************************************************)
C22_FailedReadIgnored ==
  [][/\ notices' = notices
     /\ (Len(events') > Len(events) /\ LastEvent.source = "clipboard read failed")
          => UNCHANGED <<ops, dirs, files, recentPrompts, lastInput, timers,
                         inputTimeout>>]_vars

(***************************************************************************)
(* C23.  The polling sources coalesce repeated reads: at most one debounce *)
(* timer is pending, and while the clipboard holds one unchanged value the *)
(* clipboard poller emits at most one capture event for that value,        *)
(* whatever the order in which the reads return; likewise the chat-input   *)
(* poller for an unchanged document text.  A read of an older value that   *)
(* returns late resets lastInput (copilot-api.ts 57, 69), and the next     *)
(* poll emits the current value again.                                     *)
(***************************************************************************)
C23_OneEventPerUnchangedValue ==
  /\ Cardinality(timers) <= 1
  /\ \A k, l \in 1..Len(events) :
       ( /\ k < l
         /\ events[k].source = "clipboard" /\ events[l].source = "clipboard"
         /\ events[k].text = events[l].text )
         => ~(events[k].clip = events[l].clip /\ events[k].clip.text = events[k].text)
  /\ \A k, l \in 1..Len(events) :
       ( /\ k < l
         /\ events[k].source = "chat" /\ events[l].source = "chat"
         /\ events[k].text = events[l].text )
         => events[k].doc # events[l].doc

(***************************************************************************)
(* C24.  The writer is a no-op while the enabled flag it reads is false:   *)
(* a call of appendToLog then starts no append operation and touches no    *)
(* directory and no file.  In a step taken while the flag is false no      *)
(* operation starts, and a directory or file changes only by the           *)
(* continuation of an operation that was started while the flag was true.  *)
(* In particular an activation with logging disabled creates nothing.      *)
(***************************************************************************)
C24_DisabledWriterTouchesNothing ==
  [][/\ \A i \in 1..Len(ops') : ops'[i].enabled
     /\ ~isEnabled =>
          /\ Len(ops') = Len(ops)
          /\ (dirs' # dirs \/ files' # files)
               => \E i \in 1..Len(ops) : ops'[i] # ops[i]]_vars

\* C24 witness: the extension was activated and a prompt was submitted with
\* logging disabled, and there is no directory, no file and no operation.
C24_Witness ==
  /\ activated /\ ~isEnabled /\ ~settings.enabled
  /\ nCalls > 0
  /\ ops = <<>>
  /\ dirs = {}
  /\ \A l \in Locations : files[l] = NoFile

(***************************************************************************)
(* C25.  Context truncation in the full path: when a Context section is    *)
(* written, a context of more than 500 characters appears as its first 500 *)
(* characters followed by "... [truncated]", and a context of 500          *)
(* characters or fewer appears unchanged, without the suffix.              *)
(***************************************************************************)
WithContext == {i \in OpsOf("logPrompt") : ops[i].content.context # NoContext}

C25_ContextTruncatedAt500 ==
  \A i \in WithContext :
    LET given == ops[i].content.given
        shown == ops[i].content.context
    IN  IF TextLength(given) > 500
        THEN /\ shown # <<>>
             /\ shown[Len(shown)] = TRUNCATED
             /\ IsPrefix(SubSeq(shown, 1, Len(shown) - 1), given)
             /\ TextLength(SubSeq(shown, 1, Len(shown) - 1)) = 500
        ELSE shown = given

\* C25 witness: entries on disk for a context of 600 characters, shown as
\* 500 characters and the suffix, and for one of exactly 500, shown as it is.
C25_Witness ==
  /\ \E i \in WithContext :
       /\ i \in OnDisk
       /\ TextLength(ops[i].content.given) = 600
       /\ TextLength(ops[i].content.context) = 500 + Width(TRUNCATED)
  /\ \E i \in WithContext :
       /\ i \in OnDisk
       /\ TextLength(ops[i].content.given) = 500
       /\ ops[i].content.context = ops[i].content.given

(***************************************************************************)
(* C26.  A full-path entry holds a Context section exactly when            *)
(* includeContext is true, the context is not blank, differs from the      *)
(* cleaned prompt text and does not contain "User Input"; in every case    *)
(* the Source and Input sections are written.                              *)
(***************************************************************************)
C26_ContextSectionGate ==
  \A i \in OpsOf("logPrompt") :
    LET given == ops[i].content.given
    IN  /\ ops[i].content.context # NoContext
          <=> /\ includeContext
              /\ Trim(given) # <<>>
              /\ given # ops[i].content.text
              /\ ~Includes(given, <<"User Input">>)
        /\ ops[i].content.kind = "### User Prompt (#### Input)"
        /\ ops[i].content.source # ""
        /\ ops[i].content.text = cleanupPrompt(ops[i].raw)

\* C26 witness: with includeContext on, an entry on disk without a Context
\* section because its context holds "User Input", and an entry with the
\* section, whose context differs from the cleaned prompt.
C26_Witness ==
  /\ includeContext
  /\ \E i \in OpsOf("logPrompt") \ WithContext :
       i \in OnDisk /\ Includes(ops[i].content.given, <<"User Input">>)
  /\ \E i \in WithContext :
       /\ i \in OnDisk
       /\ ops[i].content.given # ops[i].content.text

(***************************************************************************)
(* C27.  Normalization is idempotent: cleanupPrompt applied to its own     *)
(* output gives that output again.  Stated on the prompts logPrompt        *)
(* cleaned: the cleaned text of every operation is a fixed point of        *)
(* cleanupPrompt.  The patterns are applied one after the other, once      *)
(* each (logger.ts 627-642): removing a timestamp can join dashes into a   *)
(* run of three, which only a second pass strips.                          *)
(***************************************************************************)
C27_CleanupIdempotent ==
  \A i \in OpsOf("logPrompt") :
    /\ ops[i].content.text = cleanupPrompt(ops[i].raw)
    /\ cleanupPrompt(ops[i].content.text) = ops[i].content.text

(***************************************************************************)
(* C28.  Every element of the recent-prompt history is a normalized        *)
(* comparison key: in every reachable state each text in recentPrompts     *)
(* equals its own trim + lowercase form, whichever entry point inserted    *)
(* it.  logUserInput inserts the trimmed text as typed (logger.ts 461).    *)
(***************************************************************************)
C28_HistoryHoldsKeys ==
  \A k \in 1..Len(recentPrompts) : recentPrompts[k] = Normalized(recentPrompts[k])

(***************************************************************************)
(* C29.  Whenever logging becomes disabled through the disable command or  *)
(* "Toggle Logging", the capture listeners and the polling intervals are   *)
(* stopped: in every state where logging is disabled no capture listener   *)
(* and no poll timer is active; and whenever logging becomes enabled       *)
(* through either entry point the capture listeners are registered.        *)
(* Logging starts enabled here, so it is disabled only through an entry    *)
(* point.                                                                  *)
(***************************************************************************)
C29_NothingActiveWhileDisabled ==
  activated /\ ~settings.enabled => ~listeners /\ ~clipboardPolling /\ ~chatPolling

C29_ListenersWhileEnabled ==
  activated /\ settings.enabled => listeners

C29_DisableStopsCapture ==
  C29_NothingActiveWhileDisabled /\ C29_ListenersWhileEnabled

(***************************************************************************)
(* C30.  A webview message produces a capture event only if its type is    *)
(* 'userInput' and its text is a non-empty string; the delivery of every   *)
(* other payload emits no event, starts no log entry, leaves the recent-   *)
(* prompt history as it is and raises no error.                            *)
(***************************************************************************)
C30_IgnoredDelivery ==
  \A message \in Payloads :
    WebviewMessage(message) /\ ~IsUserInputString(message)
      => UNCHANGED <<events, ops, recentPrompts, thrown>>

C30_OtherPayloadsIgnored == [][C30_IgnoredDelivery]_vars

(***************************************************************************)
(* C31.  Entries stand in the log file in the order in which their append  *)
(* operations were started, session markers and prompt entries alike: in   *)
(* every file an entry of an earlier operation precedes every entry of a   *)
(* later one, also when the earlier operation was waiting in its retry     *)
(* backoff when the later one arrived.                                     *)
(***************************************************************************)
C31_EntriesInStartOrder ==
  \A l \in Locations :
    \A j, k \in 1..Len(files[l].content) :
      j < k => files[l].content[j].op <= files[l].content[k].op

(***************************************************************************)
(* C32.  The duplicate history is shared by the entry points and keyed     *)
(* consistently: when the same prompt text is captured once through        *)
(* logPrompt and once through logUserInput, in either order and while the  *)
(* text is within the last MAX_RECENT_PROMPTS remembered, one log entry is *)
(* written: no two append operations, one of each entry point, are         *)
(* started for the same text.  The runs remember fewer than                *)
(* MAX_RECENT_PROMPTS texts, so nothing is evicted.                        *)
(***************************************************************************)
C32_OneEntryAcrossEntryPoints ==
  \A i, j \in 1..Len(ops) :
    /\ ops[i].api = "logPrompt"
    /\ ops[j].api = "logUserInput"
    => ops[i].raw # ops[j].raw

(***************************************************************************)
(* C33.  The logger never captures its own output: the text of an entry    *)
(* the logger has written to the log file (file header, session marker,    *)
(* prompt entry), when it is reported as a text-document change of the log *)
(* file or handed back to logPrompt, never starts a further log entry.     *)
(***************************************************************************)
C33_NoEntryFromOwnOutput ==
  \A j \in 1..Len(ops) :
    \A text \in LogTexts : ops[j].raw # text /\ ops[j].raw # Trim(text)

\* the half of C33 about the text-document changes
C33_NoEntryFromLogFileChange ==
  \A j \in 1..Len(ops) : ops[j].content.source # "User Input"

====
